---- MODULE Spec2Model ----
(***************************************************************************)
(* A model of the SecureVault server: users and their master keys, rooms   *)
(* with role-based membership and per-member wrapped room keys, room and   *)
(* personal files, and file locks.  Every handler is translated from its   *)
(* Python source; the database tables are sets of rows, the content store  *)
(* is the set of paths that exist.                                         *)
(***************************************************************************)
EXTENDS Integers, FiniteSets, Sequences, TLC

(* ------------------------------ bounds -------------------------------- *)

\* user ids (one per username) that may sign up
NumUsers == 3
\* rooms that may be created
MaxRooms == 1
\* largest primary key the room_members table hands out
MaxMemberId == 3
\* largest primary key the files table hands out, and largest path
MaxFileId == 1
MaxClock == 30
MaxShares == 1
\* largest primary key the file_versions table hands out
MaxVersions == 3

Users == 1..NumUsers
RoomIds == 1..MaxRooms
FileIds == 1..MaxFileId

(* --------------------------- program constants ------------------------ *)

\* room_model.py: ROLE_HIERARCHY
ROLE_HIERARCHY ==
    ("owner" :> 4) @@ ("admin" :> 3) @@ ("member" :> 2) @@ ("viewer" :> 1)

\* file_model.py: room_id is nullable; NULL marks a personal vault file
NoRoom == 0

\* role strings a request may carry ("guest" is not in ROLE_HIERARCHY)
RequestRoles == {"owner", "admin", "member", "viewer", "guest"}

\* lock_routes.py: the lease of a lock
DEFAULT_LOCK_TIMEOUT_MINUTES == 15

\* encryption_service.py: ALGORITHM_MAP
ALGORITHM_MAP == {"AES-GCM", "AES-CBC", "ChaCha20"}

VARIABLES
    users,        \* users table: the ids of the User rows
    keys,         \* keys table: rows [user_id, encrypted_master_key]
    rooms,        \* rooms table: rows [id, owner_id]
    roomMembers,  \* room_members table: rows [id, room_id, user_id, role]
    roomKeys,     \* room_keys table: rows [room_id, user_id, encrypted_room_key]
    files,        \* files table: rows [id, owner_id, room_id, encrypted_path,
                  \*   algorithm, nonce_or_iv, salt, tag, hash_value, file_size,
                  \*   expiry_time]
    disk,         \* content store: the paths that exist
    content,      \* content store: the bytes at each path that exists
    shares,       \* share_links table: rows [id, file_id, token, expiry, passphrase_hash]
    locks,        \* file_locks table: rows [file_id, locked_by, expires_at]
    now,          \* the wall clock, in minutes
    req,          \* a membership request part way through its handler
    last,         \* the response of the handler that ran last: [op, status, msg]
    cx,           \* a round trip through encrypt_file and decrypt_file
    sd,           \* calls of secure_delete_file, the last one step by step
    ks,           \* calls of store_encrypted_key and retrieve_master_key
    audit,        \* the audit_logs table, oldest row first
    versions,     \* the file_versions table
    cache,        \* redis_client: which store it is, and the keys it holds
    accounts,     \* users table: the credential and lockout columns of each row
    alerts,       \* the ids_alerts table
    twin,         \* a Redis server given the calls an InMemoryRedis is given
    otp,          \* the calls of verify_otp under way, and what they returned
    firstRole     \* per room and user, the role first held since the owner last acted

vars ==
    <<users, keys, rooms, roomMembers, roomKeys, files, disk, content, shares, locks,
      now, req, last, cx, sd, ks, audit, versions, cache, accounts, alerts, twin, otp,
      firstRole>>
db ==
    <<users, keys, rooms, roomMembers, roomKeys, files, disk, content, shares, locks,
      versions>>
\* what no request handler touches, and the audit table, which no handler
\* reads: it is followed where the audit rows are the subject
auth == <<cache, accounts, alerts, twin, otp, firstRole>>
aux == <<cx, sd, ks, audit, auth>>

(* ------------------------------ helpers ------------------------------- *)

SetMax(S) == CHOOSE x \in S : \A y \in S : y <= x

\* the primary key an INSERT gets: SQLite's rowid, one more than the largest
\* id in the table (config.py: the default database is SQLite, and the
\* models do not set sqlite_autoincrement)
NextId(table) == IF table = {} THEN 1 ELSE SetMax({r.id : r \in table}) + 1

\* uuid.uuid4().hex + ".enc": a path nothing on disk and no row uses
NextPath ==
    SetMax({0} \cup disk \cup {f.encrypted_path : f \in files}
               \cup {v.encrypted_path : v \in versions}) + 1

\* an exception of a service function (or none)
Raise(kind, msg) == [kind |-> kind, msg |-> msg]
NoExc == Raise("none", "")

\* base64.b64encode / base64.b64decode
b64encode(raw) == [b64 |-> raw]
b64decode(enc) == enc.b64

\* os.urandom(32): a value no other call returns; the value drawn for the
\* master key of user u is named after u, the one drawn for the key of
\* room r after r
generate_master_key(user_id) == [mk |-> user_id]
generate_room_key(room_id) == [rk |-> room_id]

\* the two arguments of _encrypt_room_key taken in the other order
encrypt_room_key_swapped(room_key, master_key) ==
    [sealed |-> master_key, under |-> room_key]

\* _encrypt_room_key under a key of zero bytes in place of the master key
encrypt_room_key_zero_key(room_key, master_key) ==
    [sealed |-> room_key, under |-> [mk |-> 0]]

\* AESGCM(master_key).encrypt(nonce, room_key): the sealed box opens only
\* under the key that sealed it
encrypt_room_key(room_key, master_key) ==
    [sealed |-> room_key, under |-> master_key]

\* AESGCM(master_key).decrypt: InvalidTag under any other key
decrypt_room_key(encrypted_room_key, master_key) ==
    IF encrypted_room_key.under = master_key
        THEN [exc |-> NoExc, value |-> encrypted_room_key.sealed]
        ELSE [exc |-> Raise("InvalidTag", ""), value |-> [rk |-> 0]]

\* an Optional[bytes] value: None, or a byte string
None == [is_none |-> TRUE, data |-> <<>>]
Bytes(data) == [is_none |-> FALSE, data |-> data]

\* a str: the pieces it was put together from, each the hex of a key or a
\* text; "" is the str of no piece, and + is \o
Str(text) == <<[hex |-> [rk |-> 0], text |-> text]>>
hex(key) == <<[hex |-> key, text |-> ""]>>
EmptyStr == <<>>

\* what a handler does: its HTTP status, the error text of its body, the
\* file send_file gives the caller (None when the response is no file), and
\* the tables and content store it leaves behind
Same(status, msg) ==
    [status |-> status, msg |-> msg, sent |-> None, users |-> users, keys |-> keys,
     rooms |-> rooms, roomMembers |-> roomMembers, roomKeys |-> roomKeys,
     files |-> files, disk |-> disk, content |-> content, shares |-> shares,
     locks |-> locks, versions |-> versions, logged |-> <<>>,
     cache |-> cache, accounts |-> accounts, alerts |-> alerts]

(* ---------------------------- audit_service --------------------------- *)

\* request.remote_addr, and the None of an argument not given
remote_addr == "127.0.0.1"
NoAddr == "None"

\* log_action(user_id, action, status="success", details=None, ip_address=None):
\* the AuditLog row it commits; the arguments bind in this order whatever
\* the caller meant them to be
log_action(user_id, action, status, details, ip_address) ==
    [user_id |-> user_id, action |-> action,
     ip_address |-> IF ip_address = NoAddr THEN remote_addr ELSE ip_address,
     status |-> status, details |-> details, timestamp |-> [t |-> now, tzinfo |-> "None"]]

\* a handler's effect with one more row written to the audit table
Logged(e, row) == [e EXCEPT !.logged = Append(@, row)]

(* ------------------------- encryption_service ------------------------- *)

\* derive_key: PBKDF2-HMAC-SHA256 of the passphrase under the salt; two keys
\* are equal only when both the passphrase and the salt are
derive_key(passphrase, salt) == [pbkdf2 |-> passphrase, salt |-> salt]

\* s[:-16] and s[-16:]
AllButLast16(s) == SubSeq(s, 1, Len(s) - 16)
Last16(s) == IF Len(s) <= 16 THEN s ELSE SubSeq(s, Len(s) - 15, Len(s))

\* AESGCM(key).encrypt / ChaCha20Poly1305(key).encrypt(nonce, data, None):
\* one byte of ciphertext for each byte of data, then the 16 bytes of the
\* tag; every byte is bound to the cipher, the key, the nonce and its
\* position, and the tag bytes to the whole of the data
aead_encrypt(cipher, key, nonce, data) ==
    [i \in 1..(Len(data) + 16) |->
        IF i <= Len(data)
            THEN [box |-> <<cipher, key, nonce>>, at |-> i, of |-> data[i], over |-> <<>>]
            ELSE [box |-> <<cipher, key, nonce>>, at |-> i, of |-> 0, over |-> data]]

\* AESGCM(key).decrypt / ChaCha20Poly1305(key).decrypt(nonce, combined, None):
\* InvalidTag unless combined is what encrypt gives under this key and nonce
aead_decrypt(cipher, key, nonce, combined) ==
    IF Len(combined) < 16
        THEN [exc |-> Raise("InvalidTag", ""), value |-> <<>>]
    ELSE LET opened == [i \in 1..(Len(combined) - 16) |-> combined[i].of]
         IN  IF combined = aead_encrypt(cipher, key, nonce, opened)
                 THEN [exc |-> NoExc, value |-> opened]
                 ELSE [exc |-> Raise("InvalidTag", ""), value |-> <<>>]

\* padding.PKCS7(128).padder(): n bytes of value n, n = 16 - len % 16
pkcs7_pad(data) ==
    data \o [i \in 1..(16 - (Len(data) % 16)) |-> 16 - (Len(data) % 16)]

\* padding.PKCS7(128).unpadder(): ValueError unless the last byte n is in
\* 1..16 and the last n bytes all are n
pkcs7_unpad(padded) ==
    IF \/ Len(padded) = 0
       \/ padded[Len(padded)] \notin 1..16
       \/ padded[Len(padded)] > Len(padded)
       \/ \E i \in (Len(padded) - padded[Len(padded)] + 1)..Len(padded) :
              padded[i] # padded[Len(padded)]
        THEN [exc |-> Raise("ValueError", "Invalid padding bytes."), value |-> <<>>]
        ELSE [exc |-> NoExc,
              value |-> SubSeq(padded, 1, Len(padded) - padded[Len(padded)])]

\* what a block gives when it is opened under another key or iv, or was
\* altered: a byte that is no byte of any plaintext and no padding
Noise == 0 - 1

\* Cipher(AES(key), CBC(iv)).encryptor(): a byte of ciphertext for each byte
\* of the padded data, bound to the key, the iv and its position
cbc_encrypt(key, iv, padded) ==
    [i \in 1..Len(padded) |->
        [box |-> <<"AES-CBC", key, iv>>, at |-> i, of |-> padded[i], over |-> <<>>]]

\* the byte at position i is the one an encryptor under this key and iv put
\* there
cbc_intact(key, iv, ciphertext, i) ==
    ciphertext[i].box = <<"AES-CBC", key, iv>> /\ ciphertext[i].at = i

\* Cipher(AES(key), CBC(iv)).decryptor(): ValueError at finalize unless the
\* length is a multiple of the block length; a byte of plaintext comes out
\* right when its whole block of ciphertext is intact and so is the byte at
\* its position in the block before (the block is deciphered, then XORed
\* with the block before)
cbc_decrypt(key, iv, ciphertext) ==
    IF Len(ciphertext) % 16 # 0
        THEN [exc |-> Raise("ValueError", "not a multiple of the block length"),
              value |-> <<>>]
        ELSE [exc |-> NoExc,
              value |-> [i \in 1..Len(ciphertext) |->
                            IF /\ \A j \in (16 * ((i - 1) \div 16) + 1)..
                                          (16 * ((i - 1) \div 16) + 16) :
                                      cbc_intact(key, iv, ciphertext, j)
                               /\ i > 16 => cbc_intact(key, iv, ciphertext, i - 16)
                                THEN ciphertext[i].of
                                ELSE Noise]]

\* encrypt_aes_gcm; the salt and the nonce os.urandom gives are urandom.salt
\* and urandom.nonce
encrypt_aes_gcm(plaintext, passphrase, urandom) ==
    LET ciphertext == aead_encrypt("AES-GCM", derive_key(passphrase, urandom.salt),
                                   urandom.nonce, plaintext)
    IN  [ciphertext |-> AllButLast16(ciphertext), salt |-> urandom.salt,
         nonce_or_iv |-> urandom.nonce, tag |-> Bytes(Last16(ciphertext))]

\* ciphertext + tag: a TypeError when the tag is None
decrypt_aes_gcm(ciphertext, passphrase, salt, nonce, tag) ==
    IF tag.is_none
        THEN [exc |-> Raise("TypeError", "can't concat NoneType to bytes"),
              value |-> <<>>]
        ELSE aead_decrypt("AES-GCM", derive_key(passphrase, salt), nonce,
                          ciphertext \o tag.data)

encrypt_aes_cbc(plaintext, passphrase, urandom) ==
    [ciphertext |-> cbc_encrypt(derive_key(passphrase, urandom.salt), urandom.nonce,
                                pkcs7_pad(plaintext)),
     salt |-> urandom.salt, nonce_or_iv |-> urandom.nonce, tag |-> None]

\* decrypt_aes_cbc returning the padded plaintext
decrypt_aes_cbc_no_unpad(ciphertext, passphrase, salt, iv, tag) ==
    cbc_decrypt(derive_key(passphrase, salt), iv, ciphertext)

\* decrypt_aes_cbc: the tag is not looked at
decrypt_aes_cbc(ciphertext, passphrase, salt, iv, tag) ==
    IF cbc_decrypt(derive_key(passphrase, salt), iv, ciphertext).exc # NoExc
        THEN cbc_decrypt(derive_key(passphrase, salt), iv, ciphertext)
        ELSE pkcs7_unpad(cbc_decrypt(derive_key(passphrase, salt), iv, ciphertext).value)

encrypt_chacha20(plaintext, passphrase, urandom) ==
    LET ciphertext == aead_encrypt("ChaCha20", derive_key(passphrase, urandom.salt),
                                   urandom.nonce, plaintext)
    IN  [ciphertext |-> AllButLast16(ciphertext), salt |-> urandom.salt,
         nonce_or_iv |-> urandom.nonce, tag |-> Bytes(Last16(ciphertext))]

decrypt_chacha20(ciphertext, passphrase, salt, nonce, tag) ==
    IF tag.is_none
        THEN [exc |-> Raise("TypeError", "can't concat NoneType to bytes"),
              value |-> <<>>]
        ELSE aead_decrypt("ChaCha20", derive_key(passphrase, salt), nonce,
                          ciphertext \o tag.data)

\* encrypt_file: ValueError for an algorithm outside ALGORITHM_MAP
encrypt_file(data, passphrase, algorithm, urandom) ==
    IF algorithm \notin ALGORITHM_MAP
        THEN [exc |-> Raise("ValueError", "Unsupported algorithm"),
              value |-> [ciphertext |-> <<>>, salt |-> 0, nonce_or_iv |-> 0, tag |-> None]]
    ELSE [exc |-> NoExc,
          value |-> CASE algorithm = "AES-GCM" -> encrypt_aes_gcm(data, passphrase, urandom)
                      [] algorithm = "AES-CBC" -> encrypt_aes_cbc(data, passphrase, urandom)
                      [] algorithm = "ChaCha20" -> encrypt_chacha20(data, passphrase, urandom)]

\* decrypt_file
decrypt_file(ciphertext, passphrase, algorithm, salt, nonce_or_iv, tag) ==
    IF algorithm \notin ALGORITHM_MAP
        THEN [exc |-> Raise("ValueError", "Unsupported algorithm"), value |-> <<>>]
    ELSE CASE algorithm = "AES-GCM" -> decrypt_aes_gcm(ciphertext, passphrase, salt, nonce_or_iv, tag)
           [] algorithm = "AES-CBC" -> decrypt_aes_cbc(ciphertext, passphrase, salt, nonce_or_iv, tag)
           [] algorithm = "ChaCha20" -> decrypt_chacha20(ciphertext, passphrase, salt, nonce_or_iv, tag)

(* ---------------------------- hash_service ---------------------------- *)

\* sha256_hash: the hex digest; two digests are equal only when the data are
sha256_hash(data) == [sha256 |-> data]

\* verify_sha256
verify_sha256(data, expected_hash) == sha256_hash(data) = expected_hash

(* ---------------------------- key_service ----------------------------- *)

KeyRows(user_id) == {k \in keys : k.user_id = user_id}

\* retrieve_master_key answering a missing row with a key of zero bytes
retrieve_master_key_zeros(user_id) ==
    IF KeyRows(user_id) = {}
        THEN [found |-> TRUE, key |-> [mk |-> 0]]
        ELSE [found |-> TRUE,
              key |-> b64decode((CHOOSE k \in KeyRows(user_id) : TRUE).encrypted_master_key)]

\* retrieve_master_key: the decoded key of the user's row, or None
retrieve_master_key(user_id) ==
    IF KeyRows(user_id) = {}
        THEN [found |-> FALSE, key |-> [mk |-> 0]]
        ELSE [found |-> TRUE,
              key |-> b64decode((CHOOSE k \in KeyRows(user_id) : TRUE).encrypted_master_key)]

\* store_encrypted_key with no query for an existing row: always an INSERT
store_encrypted_key_insert(user_id, master_key) ==
    keys \cup {[user_id |-> user_id, encrypted_master_key |-> b64encode(master_key)]}

\* store_encrypted_key: the first row of the user is updated, or a row is
\* inserted when the user has none (Key.user_id is indexed, not unique)
store_encrypted_key(user_id, master_key) ==
    LET encoded == b64encode(master_key) IN
    IF KeyRows(user_id) = {}
        THEN keys \cup {[user_id |-> user_id, encrypted_master_key |-> encoded]}
        ELSE LET existing == CHOOSE k \in KeyRows(user_id) : TRUE IN
             (keys \ {existing}) \cup {[existing EXCEPT !.encrypted_master_key = encoded]}

(* ---------------------------- auth_routes ----------------------------- *)

\* signup, up to the commit of the User row (the handler commits twice; the
\* state between the two commits is one other requests can see)
signup_create_user(u) ==
    IF u \in users
        THEN Same(409, "Username already exists")
        ELSE [Same(0, "") EXCEPT !.users = users \cup {u}]

\* signup, from generate_master_key to the response
signup_store_key(u) ==
    Logged([Same(201, "") EXCEPT
               !.keys = store_encrypted_key(u, generate_master_key(u))],
           log_action(u, "signup", "success", "User registered", NoAddr))

(* ---------------------------- room_service ---------------------------- *)

MemberRows(room_id, user_id) ==
    {m \in roomMembers : m.room_id = room_id /\ m.user_id = user_id}

RoomKeyRows(room_id, user_id) ==
    {k \in roomKeys : k.room_id = room_id /\ k.user_id = user_id}

\* ROLE_HIERARCHY.get(role, 0)
RoleLevel(role) ==
    IF role \in DOMAIN ROLE_HIERARCHY THEN ROLE_HIERARCHY[role] ELSE 0

\* the comparison of check_permission made strict
check_permission_strict(room_id, user_id, required_role) ==
    IF MemberRows(room_id, user_id) = {}
        THEN FALSE
        ELSE RoleLevel((CHOOSE m \in MemberRows(room_id, user_id) : TRUE).role)
                 > RoleLevel(required_role)

\* check_permission: no membership row => False, else level >= required level
check_permission(room_id, user_id, required_role) ==
    IF MemberRows(room_id, user_id) = {}
        THEN FALSE
        ELSE RoleLevel((CHOOSE m \in MemberRows(room_id, user_id) : TRUE).role)
                 >= RoleLevel(required_role)

\* get_room_key: the caller's RoomKey row, opened under the caller's master key
get_room_key(room_id, user_id) ==
    IF RoomKeyRows(room_id, user_id) = {}
        THEN [exc |-> Raise("PermissionError", "No room key found"),
              value |-> [rk |-> 0]]
    ELSE IF ~retrieve_master_key(user_id).found
        THEN [exc |-> Raise("ValueError", "User has no master key"),
              value |-> [rk |-> 0]]
    ELSE decrypt_room_key(
             (CHOOSE k \in RoomKeyRows(room_id, user_id) : TRUE).encrypted_room_key,
             retrieve_master_key(user_id).key)

\* the tables a service call leaves behind, with the exception it raised
Outcome(exc, rms, mbs, rks) ==
    [exc |-> exc, rooms |-> rms, roomMembers |-> mbs, roomKeys |-> rks]

Unchanged(exc) == Outcome(exc, rooms, roomMembers, roomKeys)

\* create_room: Room + owner RoomMember + owner RoomKey in one commit
create_room(owner_id) ==
    IF ~retrieve_master_key(owner_id).found
        THEN Unchanged(Raise("ValueError", "Owner has no master key"))
        ELSE Outcome(NoExc,
                 rooms \cup {[id |-> NextId(rooms), owner_id |-> owner_id]},
                 roomMembers \cup {[id |-> NextId(roomMembers),
                                    room_id |-> NextId(rooms),
                                    user_id |-> owner_id, role |-> "owner"]},
                 roomKeys \cup {[room_id |-> NextId(rooms), user_id |-> owner_id,
                                 encrypted_room_key |->
                                     encrypt_room_key(generate_room_key(NextId(rooms)),
                                         retrieve_master_key(owner_id).key)]})

\* add_member with the membership committed before the new member's master
\* key is looked up
add_member_row_first(room_id, user_id, role, adder_id) ==
    IF ~check_permission(room_id, adder_id, "admin")
        THEN Unchanged(Raise("PermissionError", "Only admins and above can add members"))
    ELSE IF MemberRows(room_id, user_id) # {}
        THEN Unchanged(Raise("ValueError", "User is already a member of this room"))
    ELSE IF role \notin DOMAIN ROLE_HIERARCHY \/ role = "owner"
        THEN Unchanged(Raise("ValueError", "Invalid role"))
    ELSE IF get_room_key(room_id, adder_id).exc # NoExc
        THEN Unchanged(get_room_key(room_id, adder_id).exc)
    ELSE IF ~retrieve_master_key(user_id).found
        THEN Outcome(Raise("ValueError", "Target user has no master key"), rooms,
                 roomMembers \cup {[id |-> NextId(roomMembers), room_id |-> room_id,
                                    user_id |-> user_id, role |-> role]},
                 roomKeys)
    ELSE Outcome(NoExc, rooms,
             roomMembers \cup {[id |-> NextId(roomMembers), room_id |-> room_id,
                                user_id |-> user_id, role |-> role]},
             roomKeys \cup {[room_id |-> room_id, user_id |-> user_id,
                             encrypted_room_key |->
                                 encrypt_room_key(get_room_key(room_id, adder_id).value,
                                     retrieve_master_key(user_id).key)]})

\* add_member: RoomMember + RoomKey (the adder's room key wrapped under the
\* new member's master key) in one commit
add_member(room_id, user_id, role, adder_id) ==
    IF ~check_permission(room_id, adder_id, "admin")
        THEN Unchanged(Raise("PermissionError", "Only admins and above can add members"))
    ELSE IF MemberRows(room_id, user_id) # {}
        THEN Unchanged(Raise("ValueError", "User is already a member of this room"))
    ELSE IF role \notin DOMAIN ROLE_HIERARCHY \/ role = "owner"
        THEN Unchanged(Raise("ValueError", "Invalid role"))
    ELSE IF get_room_key(room_id, adder_id).exc # NoExc
        THEN Unchanged(get_room_key(room_id, adder_id).exc)
    ELSE IF ~retrieve_master_key(user_id).found
        THEN Unchanged(Raise("ValueError", "Target user has no master key"))
    ELSE Outcome(NoExc, rooms,
             roomMembers \cup {[id |-> NextId(roomMembers), room_id |-> room_id,
                                user_id |-> user_id, role |-> role]},
             roomKeys \cup {[room_id |-> room_id, user_id |-> user_id,
                             encrypted_room_key |->
                                 encrypt_room_key(get_room_key(room_id, adder_id).value,
                                     retrieve_master_key(user_id).key)]})

\* remove_member without the test of the owner role
remove_member_any(room_id, user_id, remover_id) ==
    IF ~check_permission(room_id, remover_id, "admin")
        THEN Unchanged(Raise("PermissionError", "Only admins and above can remove members"))
    ELSE IF MemberRows(room_id, user_id) = {}
        THEN Unchanged(Raise("ValueError", "User is not a member"))
    ELSE Outcome(NoExc, rooms,
             roomMembers \ {CHOOSE m \in MemberRows(room_id, user_id) : TRUE},
             roomKeys \ RoomKeyRows(room_id, user_id))

\* remove_member without the delete of the RoomKey rows
remove_member_keeps_key(room_id, user_id, remover_id) ==
    IF ~check_permission(room_id, remover_id, "admin")
        THEN Unchanged(Raise("PermissionError", "Only admins and above can remove members"))
    ELSE IF MemberRows(room_id, user_id) = {}
        THEN Unchanged(Raise("ValueError", "User is not a member"))
    ELSE IF (CHOOSE m \in MemberRows(room_id, user_id) : TRUE).role = "owner"
        THEN Unchanged(Raise("ValueError", "Cannot remove the room owner"))
    ELSE Outcome(NoExc, rooms,
             roomMembers \ {CHOOSE m \in MemberRows(room_id, user_id) : TRUE},
             roomKeys)

\* remove_member: the member's RoomKey rows and RoomMember row in one commit
remove_member(room_id, user_id, remover_id) ==
    IF ~check_permission(room_id, remover_id, "admin")
        THEN Unchanged(Raise("PermissionError", "Only admins and above can remove members"))
    ELSE IF MemberRows(room_id, user_id) = {}
        THEN Unchanged(Raise("ValueError", "User is not a member"))
    ELSE IF (CHOOSE m \in MemberRows(room_id, user_id) : TRUE).role = "owner"
        THEN Unchanged(Raise("ValueError", "Cannot remove the room owner"))
    ELSE Outcome(NoExc, rooms,
             roomMembers \ {CHOOSE m \in MemberRows(room_id, user_id) : TRUE},
             roomKeys \ RoomKeyRows(room_id, user_id))

(* ----------------------------- room_routes ---------------------------- *)

\* the response of a route to what a room_service call did
Served(ok_status, error_status, out) ==
    [Same(IF out.exc = NoExc THEN ok_status ELSE error_status, out.exc.msg)
        EXCEPT !.rooms = out.rooms, !.roomMembers = out.roomMembers,
               !.roomKeys = out.roomKeys]

\* POST /api/rooms: any exception of create_room is a 400
create_room_endpoint(user_id, has_name) ==
    IF ~has_name
        THEN Same(400, "Room name is required")
    ELSE IF create_room(user_id).exc # NoExc
        THEN Served(201, 400, create_room(user_id))
    ELSE Logged(Served(201, 400, create_room(user_id)),
                log_action(user_id, "room_create", remote_addr, "success",
                           "Created room"))

\* the status add_member_endpoint and remove_member_endpoint give an
\* exception: PermissionError 403, ValueError 400, any other is not caught
MemberRouteStatus(exc) ==
    CASE exc.kind = "PermissionError" -> 403
      [] exc.kind = "ValueError" -> 400
      [] OTHER -> 500

\* POST /api/rooms/<room_id>/members
add_member_endpoint(adder_id, room_id, username, role) ==
    IF username \notin users
        THEN Same(404, "User not found")
    ELSE IF add_member(room_id, username, role, adder_id).exc # NoExc
        THEN Served(200,
                 MemberRouteStatus(add_member(room_id, username, role, adder_id).exc),
                 add_member(room_id, username, role, adder_id))
    ELSE Logged(Served(200, 200, add_member(room_id, username, role, adder_id)),
                log_action(adder_id, "room_add_member", remote_addr, "success",
                           "Added member to room"))

\* DELETE /api/rooms/<room_id>/members/<member_id>
remove_member_endpoint(remover_id, room_id, member_id) ==
    IF remove_member(room_id, member_id, remover_id).exc # NoExc
        THEN Served(200,
                 MemberRouteStatus(remove_member(room_id, member_id, remover_id).exc),
                 remove_member(room_id, member_id, remover_id))
        ELSE Logged(Served(200, 200, remove_member(room_id, member_id, remover_id)),
                    log_action(remover_id, "room_remove_member", remote_addr,
                               "success", "Removed user from room"))

\* PATCH /api/rooms/<room_id>/members/<member_id>
change_role_endpoint(user_id, room_id, member_id, new_role) ==
    IF ~check_permission(room_id, user_id, "owner")
        THEN Same(403, "Only the owner can change roles")
    ELSE IF new_role \notin {"admin", "member", "viewer"}
        THEN Same(400, "Invalid role")
    ELSE IF MemberRows(room_id, member_id) = {}
        THEN Same(404, "Member not found")
    ELSE IF (CHOOSE m \in MemberRows(room_id, member_id) : TRUE).role = "owner"
        THEN Same(400, "Cannot change owner role")
    ELSE Logged([Same(200, "") EXCEPT !.roomMembers =
                    {IF m \in MemberRows(room_id, member_id)
                         THEN [m EXCEPT !.role = new_role] ELSE m : m \in roomMembers}],
                log_action(user_id, "room_role_change", remote_addr, "success",
                           "Changed user role"))

\* the File row with this id in this room (File.query.filter_by(id, room_id))
RoomFileRows(room_id, file_id) ==
    {f \in files : f.id = file_id /\ f.room_id = room_id}

\* GET /api/rooms/<room_id>
get_room(user_id, room_id) ==
    IF ~check_permission(room_id, user_id, "viewer")
        THEN Same(403, "Access denied")
    ELSE IF {r \in rooms : r.id = room_id} = {}
        THEN Same(404, "Room not found")
    ELSE Same(200, "")

\* GET /api/rooms/<room_id>/files
list_room_files(user_id, room_id) ==
    IF ~check_permission(room_id, user_id, "viewer")
        THEN Same(403, "Access denied")
        ELSE Same(200, "")

\* os.path.exists(filepath)
exists(filepath) == filepath \in disk

\* open(path, "wb").write(data) / save_encrypted_file: the content store
\* with these bytes at the path
save_encrypted_file(path, data) ==
    [p \in disk \cup {path} |-> IF p = path THEN data ELSE content[p]]

\* a File row as the table holds it; expiry_time is a naive datetime, or
\* NoTime for NULL
NoTime == [t |-> 0, tzinfo |-> "NULL"]
File(id, owner_id, room_id, encrypted_path, algorithm, enc, tag, hash_value, file_size, expiry_time) ==
    [id |-> id, owner_id |-> owner_id, room_id |-> room_id,
     encrypted_path |-> encrypted_path, algorithm |-> algorithm,
     nonce_or_iv |-> enc.nonce_or_iv, salt |-> enc.salt, tag |-> tag,
     hash_value |-> hash_value, file_size |-> file_size, expiry_time |-> expiry_time,
     current_version |-> 1]

\* tag or b"": the empty byte string for None and for an empty tag
or_empty(tag) == IF tag.is_none \/ tag.data = <<>> THEN Bytes(<<>>) ELSE tag

\* upload_room_file after the role check: the 400 for a request without a
\* file, then the try block, where any exception is a 500. The salt and the
\* nonce os.urandom gives are named after the path the ciphertext goes to
upload_room_file_try(user_id, room_id, has_file, algorithm, passphrase, file_data) ==
    IF ~has_file
        THEN Same(400, "No file provided")
    ELSE IF get_room_key(room_id, user_id).exc # NoExc
        THEN Same(500, get_room_key(room_id, user_id).exc.msg)
    ELSE LET combined_passphrase == hex(get_room_key(room_id, user_id).value) \o passphrase
             result == encrypt_file(file_data, combined_passphrase, algorithm,
                                    [salt |-> NextPath, nonce |-> NextPath])
         IN  IF result.exc # NoExc
                 THEN Same(500, result.exc.msg)
                 ELSE Logged([Same(201, "") EXCEPT
                          !.disk = disk \cup {NextPath},
                          !.content = save_encrypted_file(NextPath, result.value.ciphertext),
                          !.files = files \cup
                              {File(NextId(files), user_id, room_id, NextPath, algorithm,
                                    result.value, or_empty(result.value.tag),
                                    sha256_hash(file_data), Len(file_data), NoTime)}],
                          log_action(user_id, "room_upload", remote_addr, "success",
                                     "Uploaded file to room"))

\* upload_room_file gated at viewer
upload_room_file_viewer(user_id, room_id, has_file, algorithm, passphrase, file_data) ==
    IF ~check_permission(room_id, user_id, "viewer")
        THEN Same(403, "Viewers cannot upload files")
        ELSE upload_room_file_try(user_id, room_id, has_file, algorithm, passphrase, file_data)

\* POST /api/rooms/<room_id>/files/upload: the ciphertext is written, then
\* the File row committed
upload_room_file(user_id, room_id, has_file, algorithm, passphrase, file_data) ==
    IF ~check_permission(room_id, user_id, "member")
        THEN Same(403, "Viewers cannot upload files")
        ELSE upload_room_file_try(user_id, room_id, has_file, algorithm, passphrase, file_data)

\* the decryption of a File row's ciphertext under a passphrase: what
\* read_encrypted_file / open(...).read() and decrypt_file give
read_and_decrypt(file_record, passphrase) ==
    IF ~exists(file_record.encrypted_path)
        THEN [exc |-> Raise("FileNotFoundError", ""), value |-> <<>>]
        ELSE decrypt_file(content[file_record.encrypted_path], passphrase,
                          file_record.algorithm, file_record.salt,
                          file_record.nonce_or_iv, file_record.tag)

\* decrypt_room_file sending the plaintext without the integrity check
decrypt_room_file_unchecked(user_id, room_id, file_id, passphrase) ==
    IF ~check_permission(room_id, user_id, "viewer")
        THEN Same(403, "Access denied")
    ELSE IF RoomFileRows(room_id, file_id) = {}
        THEN Same(404, "File not found in this room")
    ELSE IF get_room_key(room_id, user_id).exc # NoExc
        THEN Same(400, "Decryption failed")
    ELSE LET file_record == CHOOSE f \in RoomFileRows(room_id, file_id) : TRUE
             plaintext == read_and_decrypt(file_record,
                              hex(get_room_key(room_id, user_id).value) \o passphrase)
         IN  IF plaintext.exc # NoExc
                 THEN Same(400, "Decryption failed")
                 ELSE [Same(200, "") EXCEPT !.sent = Bytes(plaintext.value)]

\* POST /api/rooms/<room_id>/files/<file_id>/decrypt: any exception of the
\* key lookup, the read or the decryption is a 400; a plaintext whose
\* SHA-256 is not the recorded one is a 403
decrypt_room_file(user_id, room_id, file_id, passphrase) ==
    IF ~check_permission(room_id, user_id, "viewer")
        THEN Same(403, "Access denied")
    ELSE IF RoomFileRows(room_id, file_id) = {}
        THEN Same(404, "File not found in this room")
    ELSE IF get_room_key(room_id, user_id).exc # NoExc
        THEN Logged(Same(400, "Decryption failed"),
                    log_action(user_id, "room_decrypt", remote_addr, "failure",
                               get_room_key(room_id, user_id).exc.msg))
    ELSE LET file_record == CHOOSE f \in RoomFileRows(room_id, file_id) : TRUE
             plaintext == read_and_decrypt(file_record,
                              hex(get_room_key(room_id, user_id).value) \o passphrase)
         IN  IF plaintext.exc # NoExc
                 THEN Logged(Same(400, "Decryption failed"),
                             log_action(user_id, "room_decrypt", remote_addr, "failure",
                                        plaintext.exc.msg))
             ELSE IF sha256_hash(plaintext.value) # file_record.hash_value
                 THEN Logged(Same(403, "TAMPERING DETECTED"),
                             log_action(user_id, "room_decrypt", remote_addr, "failure",
                                        "TAMPERING DETECTED"))
             ELSE Logged([Same(200, "") EXCEPT !.sent = Bytes(plaintext.value)],
                         log_action(user_id, "room_decrypt", remote_addr, "success",
                                    "Decrypted file from room"))

\* DELETE /api/rooms/<room_id>/files/<file_id>: the handler imports
\* secure_delete, a name secure_delete_service does not define, so the import
\* raises after the two checks and nothing is deleted
delete_room_file(user_id, room_id, file_id) ==
    IF ~check_permission(room_id, user_id, "admin")
        THEN Same(403, "Only admins can delete files")
    ELSE IF RoomFileRows(room_id, file_id) = {}
        THEN Same(404, "File not found")
    ELSE Same(500, "ImportError")

(* ------------------------ secure_delete_service ----------------------- *)

\* secure_delete_file: False when the path does not exist, else the file is
\* overwritten and removed
secure_delete_file(filepath) ==
    [deleted |-> exists(filepath), disk |-> disk \ {filepath},
     content |-> [p \in disk \ {filepath} |-> content[p]]]

(* ----------------------------- file_routes ---------------------------- *)

\* File.query.get(file_id)
FileRows(file_id) == {f \in files : f.id = file_id}

\* the caller's File row with this id (File.query.filter_by(id, owner_id))
OwnFileRows(user_id, file_id) ==
    {f \in files : f.id = file_id /\ f.owner_id = user_id}

\* ShareLink rows of a file (File.share_links)
ShareRows(file_id) == {l \in shares : l.file_id = file_id}

\* FileLock.query.filter_by(file_id=file_id); also File.lock, the backref of
\* FileLock.file
LockRows(file_id) == {l \in locks : l.file_id = file_id}

\* FileVersion rows of a file (File.versions, the backref of FileVersion.file)
VersionRows(file_id) == {v \in versions : v.file_id = file_id}

\* DELETE /api/files/<file_id>: the ciphertext is overwritten and removed,
\* then the row deleted. File.share_links has no delete cascade, so at the
\* commit the ORM sets file_id of the file's share links to NULL; the column
\* is NOT NULL, the commit raises IntegrityError and the row stays, without
\* its ciphertext. File.versions and File.lock have no delete cascade
\* either, and file_versions.file_id and file_locks.file_id are NOT NULL
delete_file(user_id, file_id) ==
    IF OwnFileRows(user_id, file_id) = {}
        THEN Same(404, "File not found")
    ELSE IF ShareRows(file_id) # {} \/ VersionRows(file_id) # {} \/ LockRows(file_id) # {}
        THEN [Same(500, "IntegrityError") EXCEPT
                 !.disk = secure_delete_file(
                     (CHOOSE f \in OwnFileRows(user_id, file_id) : TRUE).encrypted_path).disk,
                 !.content = secure_delete_file(
                     (CHOOSE f \in OwnFileRows(user_id, file_id) : TRUE).encrypted_path).content]
        ELSE Logged([Same(200, "") EXCEPT
                 !.disk = secure_delete_file(
                     (CHOOSE f \in OwnFileRows(user_id, file_id) : TRUE).encrypted_path).disk,
                 !.content = secure_delete_file(
                     (CHOOSE f \in OwnFileRows(user_id, file_id) : TRUE).encrypted_path).content,
                 !.files = files \ OwnFileRows(user_id, file_id)],
                 log_action(user_id, "delete", "success", "Securely deleted file", NoAddr))

(* --------------------------- version_service -------------------------- *)

\* a copy that leaves dst empty
copy2_empty(src, dst, store) ==
    [p \in (DOMAIN store) \cup {dst} |-> IF p = dst THEN <<>> ELSE store[p]]

\* shutil.copy2(src, dst): the content store with the bytes of src at dst
copy2(src, dst, store) ==
    [p \in (DOMAIN store) \cup {dst} |-> IF p = dst THEN store[src] ELSE store[p]]

\* create_version_snapshot: the ciphertext copied to a new path when it
\* exists, and a FileVersion row numbered with the file's current_version,
\* committed
create_version_snapshot(file_record, user_id) ==
    LET version_path == NextPath
        version == [id |-> NextId(versions), file_id |-> file_record.id,
                    version_number |-> file_record.current_version,
                    encrypted_path |-> version_path,
                    nonce_or_iv |-> file_record.nonce_or_iv,
                    salt |-> file_record.salt, tag |-> file_record.tag,
                    hash_value |-> file_record.hash_value,
                    file_size |-> file_record.file_size, created_by |-> user_id]
    IN  [version |-> version,
         versions |-> versions \cup {version},
         disk |-> IF exists(file_record.encrypted_path)
                      THEN disk \cup {version_path} ELSE disk,
         content |-> IF exists(file_record.encrypted_path)
                         THEN copy2(file_record.encrypted_path, version_path, content)
                         ELSE content]

\* FileVersion.query.filter_by(file_id, version_number)
NumberedRows(file_id, version_number) ==
    {v \in VersionRows(file_id) : v.version_number = version_number}

\* the file row restore_version commits, given the version it restores
Restored(file_record, target_version) ==
    [file_record EXCEPT
        !.nonce_or_iv = target_version.nonce_or_iv,
        !.salt = target_version.salt,
        !.tag = target_version.tag,
        !.hash_value = target_version.hash_value,
        !.file_size = target_version.file_size,
        !.current_version = @ + 1]

\* restore_version with the file's metadata restored and current_version
\* left as it was
restore_version_no_increment(file_id, version_number, user_id) ==
    IF FileRows(file_id) = {}
        THEN [Same(404, "File not found") EXCEPT !.status = 0]
    ELSE IF NumberedRows(file_id, version_number) = {}
        THEN [Same(404, "Version not found") EXCEPT !.status = 0]
    ELSE LET file_record == CHOOSE f \in FileRows(file_id) : TRUE
             target_version ==
                 CHOOSE v \in NumberedRows(file_id, version_number) :
                     \A w \in NumberedRows(file_id, version_number) : v.id <= w.id
             snapshot == create_version_snapshot(file_record, user_id)
             found == target_version.encrypted_path \in snapshot.disk
         IN  [Same(200, "") EXCEPT
                 !.versions = snapshot.versions,
                 !.disk = IF found THEN snapshot.disk \cup {file_record.encrypted_path}
                                   ELSE snapshot.disk,
                 !.content = IF found
                                 THEN copy2(target_version.encrypted_path,
                                            file_record.encrypted_path, snapshot.content)
                                 ELSE snapshot.content,
                 !.files = (files \ {file_record})
                               \cup {[Restored(file_record, target_version) EXCEPT
                                         !.current_version = file_record.current_version]}]

\* restore_version: a ValueError (status 0 here, the route's 404) when the
\* file or the version is not found; else the current state is saved as a
\* snapshot, the version's ciphertext copied over the file's when it exists,
\* and the file's row takes the version's metadata and the next
\* current_version. The version restored is the first row of that number
restore_version(file_id, version_number, user_id) ==
    IF FileRows(file_id) = {}
        THEN [Same(404, "File not found") EXCEPT !.status = 0]
    ELSE IF NumberedRows(file_id, version_number) = {}
        THEN [Same(404, "Version not found") EXCEPT !.status = 0]
    ELSE LET file_record == CHOOSE f \in FileRows(file_id) : TRUE
             target_version ==
                 CHOOSE v \in NumberedRows(file_id, version_number) :
                     \A w \in NumberedRows(file_id, version_number) : v.id <= w.id
             snapshot == create_version_snapshot(file_record, user_id)
             found == target_version.encrypted_path \in snapshot.disk
         IN  [Same(200, "") EXCEPT
                 !.versions = snapshot.versions,
                 !.disk = IF found THEN snapshot.disk \cup {file_record.encrypted_path}
                                   ELSE snapshot.disk,
                 !.content = IF found
                                 THEN copy2(target_version.encrypted_path,
                                            file_record.encrypted_path, snapshot.content)
                                 ELSE snapshot.content,
                 !.files = (files \ {file_record})
                               \cup {Restored(file_record, target_version)}]

(* --------------------------- version_routes --------------------------- *)

\* POST /api/files/<file_id>/versions
create_version(user_id, file_id) ==
    IF FileRows(file_id) = {}
        THEN Same(404, "File not found")
    ELSE IF (CHOOSE f \in FileRows(file_id) : TRUE).owner_id # user_id
        THEN Same(403, "Access denied")
    ELSE LET snapshot ==
                 create_version_snapshot(CHOOSE f \in FileRows(file_id) : TRUE, user_id)
         IN  Logged([Same(201, "") EXCEPT
                        !.versions = snapshot.versions, !.disk = snapshot.disk,
                        !.content = snapshot.content],
                    log_action(user_id, "version_create", remote_addr, "success",
                               "Created version"))

\* POST /api/files/<file_id>/versions/<version_number>/restore
restore_file_version(user_id, file_id, version_number) ==
    IF FileRows(file_id) = {}
        THEN Same(404, "File not found")
    ELSE IF (CHOOSE f \in FileRows(file_id) : TRUE).owner_id # user_id
        THEN Same(403, "Access denied")
    ELSE IF restore_version(file_id, version_number, user_id).status = 0
        THEN [restore_version(file_id, version_number, user_id) EXCEPT !.status = 404]
    ELSE Logged(restore_version(file_id, version_number, user_id),
                log_action(user_id, "version_restore", remote_addr, "success",
                           "Restored file to version"))

(* --------------------------- file_lock_model -------------------------- *)

\* datetime.now(timezone.utc): an aware datetime
utcnow == [t |-> now, tzinfo |-> "UTC"]

\* dt + timedelta(minutes=minutes)
timedelta(dt, minutes) == [dt EXCEPT !.t = @ + minutes]

\* db.Column(db.DateTime): the column keeps no time zone, so the value a row
\* is loaded with is a naive datetime (after a commit every attribute is
\* loaded again)
DateTime(dt) == [dt EXCEPT !.tzinfo = "None"]

\* FileLock.is_expired: now > expires_at; Python orders an aware and a naive
\* datetime with a TypeError
is_expired(lock) ==
    IF utcnow.tzinfo # lock.expires_at.tzinfo
        THEN [exc |-> Raise("TypeError",
                  "can't compare offset-naive and offset-aware datetimes"),
              value |-> FALSE]
        ELSE [exc |-> NoExc, value |-> utcnow.t > lock.expires_at.t]

\* FileLock.to_dict: it calls is_expired, so it raises what is_expired raises
to_dict(lock) == is_expired(lock).exc

\* a FileLock row as the table holds it
FileLock(file_id, locked_by, expires_at) ==
    [file_id |-> file_id, locked_by |-> locked_by, expires_at |-> DateTime(expires_at)]

(* ----------------------- file_routes: the vault ----------------------- *)

\* the expiry_hours field of a request: not given, or a text float() takes
\* (here as minutes of the clock) or refuses
NoExpiry == [given |-> FALSE, valid |-> FALSE, minutes |-> 0]
Hours(minutes) == [given |-> TRUE, valid |-> TRUE, minutes |-> minutes]

\* POST /api/files/upload: the ciphertext is saved before expiry_hours is
\* looked at, so the 400 for hours that are not positive leaves it on disk
upload_file(user_id, has_file, passphrase, algorithm, expiry_hours, plaintext) ==
    IF ~has_file
        THEN Same(400, "No file uploaded")
    ELSE IF passphrase = EmptyStr
        THEN Same(400, "Encryption passphrase is required")
    ELSE IF algorithm \notin {"AES-GCM", "AES-CBC", "ChaCha20"}
        THEN Same(400, "Invalid algorithm")
    ELSE LET enc_result == encrypt_file(plaintext, passphrase, algorithm,
                                        [salt |-> NextPath, nonce |-> NextPath]).value
             saved == [Same(400, "Expiry hours must be greater than 0") EXCEPT
                          !.disk = disk \cup {NextPath},
                          !.content = save_encrypted_file(NextPath, enc_result.ciphertext)]
             expiry_time == IF expiry_hours.given /\ expiry_hours.valid
                                THEN DateTime(timedelta(utcnow, expiry_hours.minutes))
                                ELSE NoTime
         IN  IF expiry_hours.given /\ expiry_hours.valid /\ expiry_hours.minutes <= 0
                 THEN saved
                 ELSE Logged([saved EXCEPT
                          !.status = 201, !.msg = "",
                          !.files = files \cup
                              {File(NextId(files), user_id, NoRoom, NextPath, algorithm,
                                    enc_result, enc_result.tag, sha256_hash(plaintext),
                                    Len(plaintext), expiry_time)}],
                          log_action(user_id, "upload", "success", "Uploaded file",
                                     NoAddr))

\* decrypt_file_route sending the plaintext without the integrity check
decrypt_file_route_unchecked(user_id, file_id, passphrase) ==
    IF passphrase = EmptyStr
        THEN Same(400, "Decryption passphrase is required")
    ELSE IF OwnFileRows(user_id, file_id) = {}
        THEN Same(404, "File not found")
    ELSE LET file_record == CHOOSE f \in OwnFileRows(user_id, file_id) : TRUE
             plaintext == read_and_decrypt(file_record, passphrase)
         IN  IF ~exists(file_record.encrypted_path)
                 THEN Same(404, "Encrypted file missing from storage")
             ELSE IF plaintext.exc # NoExc
                 THEN Same(400, "Decryption failed. Wrong passphrase or corrupted file.")
             ELSE [Same(200, "") EXCEPT !.sent = Bytes(plaintext.value)]

\* POST /api/files/decrypt/<file_id>
decrypt_file_route(user_id, file_id, passphrase) ==
    IF passphrase = EmptyStr
        THEN Same(400, "Decryption passphrase is required")
    ELSE IF OwnFileRows(user_id, file_id) = {}
        THEN Logged(Same(404, "File not found"),
                    log_action(user_id, "decrypt", "failure", "File not found", NoAddr))
    ELSE LET file_record == CHOOSE f \in OwnFileRows(user_id, file_id) : TRUE
             plaintext == read_and_decrypt(file_record, passphrase)
         IN  IF ~exists(file_record.encrypted_path)
                 THEN Same(404, "Encrypted file missing from storage")
             ELSE IF plaintext.exc # NoExc
                 THEN Logged(Same(400, "Decryption failed. Wrong passphrase or corrupted file."),
                             log_action(user_id, "decrypt", "failure",
                                        "Decryption failed", NoAddr))
             ELSE IF ~verify_sha256(plaintext.value, file_record.hash_value)
                 THEN Logged(Same(403, "TAMPERING DETECTED"),
                             log_action(user_id, "decrypt", "failure",
                                        "TAMPERING DETECTED", NoAddr))
             ELSE Logged([Same(200, "") EXCEPT !.sent = Bytes(plaintext.value)],
                         log_action(user_id, "decrypt", "success", "Decrypted file",
                                    NoAddr))

(* --------------------------- security_routes -------------------------- *)

\* bcrypt.hashpw / bcrypt.checkpw; NoHash is the NULL of the column
NoHash == [bcrypt |-> EmptyStr]
hashpw(passphrase) == [bcrypt |-> passphrase]
checkpw(passphrase, hashed) == hashed = [bcrypt |-> passphrase]

\* ShareLink.query.filter_by(token=token)
TokenRows(token) == {l \in shares : l.token = token}

\* POST /api/security/share: secrets.token_urlsafe gives a token no other
\* link has, here the link's id
create_share_link(user_id, file_id, expiry_hours, passphrase) ==
    IF file_id = 0
        THEN Same(400, "file_id is required")
    ELSE IF OwnFileRows(user_id, file_id) = {}
        THEN Same(404, "File not found")
    ELSE IF ~expiry_hours.valid
        THEN Same(400, "Invalid expiry hours format")
    ELSE IF expiry_hours.minutes <= 0
        THEN Same(400, "Expiry must be greater than 0 hours")
    ELSE Logged([Same(201, "") EXCEPT
             !.shares = shares \cup
                 {[id |-> NextId(shares), file_id |-> file_id, token |-> NextId(shares),
                   expiry |-> DateTime(timedelta(utcnow, expiry_hours.minutes)),
                   passphrase_hash |-> IF passphrase = EmptyStr THEN NoHash
                                                                ELSE hashpw(passphrase)]}],
             log_action(user_id, "share", "success", "Created share link", NoAddr))

\* access_shared_file without the test of the expiry
access_shared_file_no_expiry(token, encryption_passphrase, share_passphrase) ==
    IF token = 0 \/ encryption_passphrase = EmptyStr
        THEN Same(400, "Token and encryption passphrase are required")
    ELSE IF TokenRows(token) = {}
        THEN Same(404, "Invalid share link")
    ELSE LET share == CHOOSE l \in TokenRows(token) : TRUE
         IN  IF share.passphrase_hash # NoHash /\ share_passphrase = EmptyStr
                 THEN Same(401, "This share link requires a passphrase")
             ELSE IF share.passphrase_hash # NoHash
                     /\ ~checkpw(share_passphrase, share.passphrase_hash)
                 THEN Same(401, "Incorrect share passphrase")
             ELSE IF FileRows(share.file_id) = {}
                 THEN Same(404, "File no longer exists")
             ELSE LET file_record == CHOOSE f \in FileRows(share.file_id) : TRUE
                      plaintext == read_and_decrypt(file_record, encryption_passphrase)
                  IN  IF plaintext.exc # NoExc
                          THEN Same(400, "Decryption failed. Wrong passphrase.")
                      ELSE IF ~verify_sha256(plaintext.value, file_record.hash_value)
                          THEN Same(403, "TAMPERING DETECTED")
                      ELSE Logged([Same(200, "") EXCEPT !.sent = Bytes(plaintext.value)],
                                  log_action(file_record.owner_id, "share_access",
                                             "success", "Shared file accessed", NoAddr))

\* POST /api/security/share/access: the expiry is read as UTC when the
\* column gave it back naive
access_shared_file(token, encryption_passphrase, share_passphrase) ==
    IF token = 0 \/ encryption_passphrase = EmptyStr
        THEN Same(400, "Token and encryption passphrase are required")
    ELSE IF TokenRows(token) = {}
        THEN Same(404, "Invalid share link")
    ELSE LET share == CHOOSE l \in TokenRows(token) : TRUE
         IN  IF utcnow.t > share.expiry.t
                 THEN Same(410, "Share link has expired")
             ELSE IF share.passphrase_hash # NoHash /\ share_passphrase = EmptyStr
                 THEN Same(401, "This share link requires a passphrase")
             ELSE IF share.passphrase_hash # NoHash
                     /\ ~checkpw(share_passphrase, share.passphrase_hash)
                 THEN Same(401, "Incorrect share passphrase")
             ELSE IF FileRows(share.file_id) = {}
                 THEN Same(404, "File no longer exists")
             ELSE LET file_record == CHOOSE f \in FileRows(share.file_id) : TRUE
                      plaintext == read_and_decrypt(file_record, encryption_passphrase)
                  IN  IF plaintext.exc # NoExc
                          THEN Same(400, "Decryption failed. Wrong passphrase.")
                      ELSE IF ~verify_sha256(plaintext.value, file_record.hash_value)
                          THEN Same(403, "TAMPERING DETECTED")
                      ELSE Logged([Same(200, "") EXCEPT !.sent = Bytes(plaintext.value)],
                                  log_action(file_record.owner_id, "share_access",
                                             "success", "Shared file accessed", NoAddr))

(* ----------------------------- lock_routes ---------------------------- *)

\* the response that carries lock.to_dict(): an exception of to_dict is not
\* caught, and what was committed before it stays
LockResponse(lock, new_locks) ==
    [Same(IF to_dict(lock) = NoExc THEN 200 ELSE 500, to_dict(lock).kind)
        EXCEPT !.locks = new_locks]

\* acquire_lock from "Create new lock" on, over the rows left in the table
create_lock(user_id, file_id, rest) ==
    Logged(LockResponse(
               FileLock(file_id, user_id, timedelta(utcnow, DEFAULT_LOCK_TIMEOUT_MINUTES)),
               rest \cup {FileLock(file_id, user_id,
                              timedelta(utcnow, DEFAULT_LOCK_TIMEOUT_MINUTES))}),
           log_action(user_id, "file_lock", remote_addr, "success", "Acquired lock"))

\* acquire_lock once a lock row is found on the file
acquire_held(user_id, file_id, existing_lock) ==
    IF is_expired(existing_lock).exc # NoExc
        THEN Same(500, is_expired(existing_lock).exc.kind)
    ELSE IF is_expired(existing_lock).value
        THEN create_lock(user_id, file_id, locks \ {existing_lock})
    ELSE IF existing_lock.locked_by = user_id
        THEN LockResponse(
                 FileLock(file_id, user_id,
                     timedelta(utcnow, DEFAULT_LOCK_TIMEOUT_MINUTES)),
                 (locks \ {existing_lock})
                     \cup {FileLock(file_id, user_id,
                               timedelta(utcnow, DEFAULT_LOCK_TIMEOUT_MINUTES))})
    ELSE Same(409, "File is locked by another user")

\* POST /api/files/<file_id>/lock
acquire_lock(user_id, file_id) ==
    IF FileRows(file_id) = {}
        THEN Same(404, "File not found")
    ELSE IF (CHOOSE f \in FileRows(file_id) : TRUE).owner_id # user_id
            /\ (CHOOSE f \in FileRows(file_id) : TRUE).room_id = NoRoom
        THEN Same(403, "Access denied")
    ELSE IF LockRows(file_id) # {}
        THEN acquire_held(user_id, file_id, CHOOSE l \in LockRows(file_id) : TRUE)
    ELSE create_lock(user_id, file_id, locks)

\* release_lock without the test of the holder
release_held_any(user_id, lock) ==
    Logged([Same(200, "") EXCEPT !.locks = locks \ {lock}],
           log_action(user_id, "file_unlock", remote_addr, "success", "Released lock"))

\* release_lock once a lock row is found on the file
release_held(user_id, lock) ==
    IF lock.locked_by # user_id /\ is_expired(lock).exc # NoExc
        THEN Same(500, is_expired(lock).exc.kind)
    ELSE IF lock.locked_by # user_id /\ ~is_expired(lock).value
        THEN Same(403, "Only the lock holder can release the lock")
    ELSE Logged([Same(200, "") EXCEPT !.locks = locks \ {lock}],
                log_action(user_id, "file_unlock", remote_addr, "success",
                           "Released lock"))

\* DELETE /api/files/<file_id>/lock
release_lock(user_id, file_id) ==
    IF LockRows(file_id) = {}
        THEN Same(200, "")
        ELSE release_held(user_id, CHOOSE l \in LockRows(file_id) : TRUE)

\* check_lock once a lock row is found on the file
check_held(lock) ==
    IF is_expired(lock).exc # NoExc
        THEN Same(500, is_expired(lock).exc.kind)
    ELSE IF is_expired(lock).value
        THEN [Same(200, "") EXCEPT !.locks = locks \ {lock}]
    ELSE LockResponse(lock, locks)

\* GET /api/files/<file_id>/lock
check_lock(user_id, file_id) ==
    IF LockRows(file_id) = {}
        THEN Same(200, "")
        ELSE check_held(CHOOSE l \in LockRows(file_id) : TRUE)

(* ------------------- a handler between its queries ------------------- *)

\* no request is part way through
Idle ==
    [pc |-> "idle", op |-> "none", actor |-> 0, room_id |-> 0, user_id |-> 0,
     role |-> "none", row |-> 0, sealed |-> [rk |-> 0], file_id |-> 0]

\* the role each handler asks check_permission for
RequiredRole(op) == IF op = "change_role" THEN "owner" ELSE "admin"

\* the handler after its check_permission query returned True
Checked(op, actor, room_id, user_id, role) ==
    [Idle EXCEPT !.pc = "checked", !.op = op, !.actor = actor,
                 !.room_id = room_id, !.user_id = user_id, !.role = role]

\* remove_member, the query for the membership row and the two tests of it:
\* the handler goes on holding the row it loaded, or raises
remove_member_load(r) ==
    IF MemberRows(r.room_id, r.user_id) = {}
            \/ (CHOOSE m \in MemberRows(r.room_id, r.user_id) : TRUE).role = "owner"
        THEN Idle
        ELSE [r EXCEPT !.pc = "loaded",
                       !.row = (CHOOSE m \in MemberRows(r.room_id, r.user_id) : TRUE).id]

\* remove_member, the commit: the RoomKey rows of (room, user) are deleted by
\* a query, the membership row loaded before by its primary key (a DELETE
\* that matches no row is not an error)
remove_member_commit(r) ==
    Outcome(NoExc, rooms,
        {m \in roomMembers : m.id # r.row},
        roomKeys \ RoomKeyRows(r.room_id, r.user_id))

\* add_member, the queries after the check: the existing membership, the
\* adder's room key, the new member's master key
add_member_load(r) ==
    IF \/ MemberRows(r.room_id, r.user_id) # {}
       \/ r.role \notin DOMAIN ROLE_HIERARCHY \/ r.role = "owner"
       \/ get_room_key(r.room_id, r.actor).exc # NoExc
       \/ ~retrieve_master_key(r.user_id).found
        THEN Idle
        ELSE [r EXCEPT !.pc = "loaded",
                       !.sealed = encrypt_room_key(
                                      get_room_key(r.room_id, r.actor).value,
                                      retrieve_master_key(r.user_id).key)]

\* add_member, the commit: the INSERT of a second membership row of
\* (room, user) fails on uq_room_user and the transaction is rolled back
add_member_commit(r) ==
    IF MemberRows(r.room_id, r.user_id) # {}
        THEN Unchanged(Raise("IntegrityError", "uq_room_user"))
        ELSE Outcome(NoExc, rooms,
                 roomMembers \cup {[id |-> NextId(roomMembers), room_id |-> r.room_id,
                                    user_id |-> r.user_id, role |-> r.role]},
                 roomKeys \cup {[room_id |-> r.room_id, user_id |-> r.user_id,
                                 encrypted_room_key |-> r.sealed]})

\* change_role_endpoint, the test of the role and the query for the
\* membership row
change_role_load(r) ==
    IF \/ r.role \notin {"admin", "member", "viewer"}
       \/ MemberRows(r.room_id, r.user_id) = {}
       \/ (CHOOSE m \in MemberRows(r.room_id, r.user_id) : TRUE).role = "owner"
        THEN Idle
        ELSE [r EXCEPT !.pc = "loaded",
                       !.row = (CHOOSE m \in MemberRows(r.room_id, r.user_id) : TRUE).id]

\* change_role_endpoint, the commit: an UPDATE by primary key; when it
\* matches no row SQLAlchemy raises StaleDataError
change_role_commit(r) ==
    IF {m \in roomMembers : m.id = r.row} = {}
        THEN Unchanged(Raise("StaleDataError", ""))
        ELSE Outcome(NoExc, rooms,
                 {IF m.id = r.row THEN [m EXCEPT !.role = r.role] ELSE m :
                      m \in roomMembers},
                 roomKeys)

\* acquire_lock after its queries found the file, the caller's access to it
\* and no lock row on it
acquire_checked(user_id, file_id) ==
    [Idle EXCEPT !.pc = "checked", !.op = "acquire_lock", !.actor = user_id,
                 !.file_id = file_id]

\* acquire_lock without the unique constraint on file_locks.file_id
acquire_commit_no_unique(r) ==
    create_lock(r.actor, r.file_id, locks)

\* acquire_lock from "Create new lock" on, for a request that ran its queries
\* earlier: file_locks.file_id is unique, so the INSERT of a second row for
\* the file raises IntegrityError at the commit
acquire_commit(r) ==
    IF LockRows(r.file_id) # {}
        THEN Same(500, "IntegrityError")
        ELSE create_lock(r.actor, r.file_id, locks)

(* ------------------------------ extensions ---------------------------- *)

\* a str a key of the store holds: str(val) of a counter, or a text such
\* as "locked"; int() of a text that is no number raises ValueError
str(val) == [digits |-> val, text |-> ""]
Text(text) == [digits |-> 0, text |-> text]
IsInt(value) == value.text = ""

\* the key of a user: f"lock:{user.id}", f"failed:{user.id}", f"otp:{user_id}"
Key(prefix, user_id) == <<prefix, user_id>>

\* what a call returns: an int, a str, None, or the exception it raises
RInt(n) == [kind |-> "int", n |-> n, s |-> ""]
RStr(value) == [kind |-> "str", n |-> value.digits, s |-> value.text]
RNone == [kind |-> "None", n |-> 0, s |-> ""]
RExc(name) == [kind |-> name, n |-> 0, s |-> ""]

\* a dict without a key, and with a key set
Pop(d, key) == [k \in DOMAIN d \ {key} |-> d[k]]
Put(d, key, value) == [k \in DOMAIN d \cup {key} |-> IF k = key THEN value ELSE d[k]]

\* an empty store: InMemoryRedis.__init__, and a Redis with no key
NoKeys == [store |-> <<>>, expiry |-> <<>>]

\* InMemoryRedis.get: a key whose time has passed is dropped from both
\* dicts (del of a key _store does not hold raises KeyError) and None is
\* returned; time.time() is the clock
InMemoryRedis_get(c, key) ==
    IF key \in DOMAIN c.expiry /\ now > c.expiry[key]
        THEN IF key \in DOMAIN c.store
                 THEN [result |-> RNone,
                       c |-> [store |-> Pop(c.store, key), expiry |-> Pop(c.expiry, key)]]
                 ELSE [result |-> RExc("KeyError"), c |-> c]
    ELSE IF key \in DOMAIN c.store
        THEN [result |-> RStr(c.store[key]), c |-> c]
        ELSE [result |-> RNone, c |-> c]

\* InMemoryRedis.set(key, value, ex): the expiry is written only for an ex
\* that is not None and not 0; an expiry the key had stays otherwise
InMemoryRedis_set(c, key, value, ex) ==
    [result |-> RNone,
     c |-> [store |-> Put(c.store, key, value),
            expiry |-> IF ex # 0 THEN Put(c.expiry, key, now + ex) ELSE c.expiry]]

\* InMemoryRedis.setex(key, time_sec, value)
InMemoryRedis_setex(c, key, time_sec, value) == InMemoryRedis_set(c, key, value, time_sec)

\* InMemoryRedis.incr: it reads _store without a look at _expiry
InMemoryRedis_incr(c, key) ==
    IF key \in DOMAIN c.store /\ ~IsInt(c.store[key])
        THEN [result |-> RExc("ValueError"), c |-> c]
        ELSE LET val == (IF key \in DOMAIN c.store THEN c.store[key].digits ELSE 0) + 1
             IN  [result |-> RInt(val),
                  c |-> [c EXCEPT !.store = Put(c.store, key, str(val))]]

\* InMemoryRedis.delete
InMemoryRedis_delete(c, key) ==
    [result |-> RNone,
     c |-> [store |-> Pop(c.store, key), expiry |-> Pop(c.expiry, key)]]

\* InMemoryRedis.expire: the expiry is written whether _store holds the key
\* or not
InMemoryRedis_expire(c, key, seconds) ==
    [result |-> RNone, c |-> [c EXCEPT !.expiry = Put(c.expiry, key, now + seconds)]]

\* InMemoryRedis.ttl: -1 for a key with no expiry, held or not; a key whose
\* time has passed is not dropped and has 0 left
InMemoryRedis_ttl(c, key) ==
    IF key \in DOMAIN c.expiry
        THEN [result |-> RInt(IF c.expiry[key] - now > 0 THEN c.expiry[key] - now ELSE 0),
              c |-> c]
        ELSE [result |-> RInt(-1), c |-> c]

\* InMemoryRedis.exists
InMemoryRedis_exists(c, key) ==
    IF key \in DOMAIN c.expiry /\ now > c.expiry[key]
        THEN IF key \in DOMAIN c.store
                 THEN [result |-> RInt(0),
                       c |-> [store |-> Pop(c.store, key), expiry |-> Pop(c.expiry, key)]]
                 ELSE [result |-> RExc("KeyError"), c |-> c]
        ELSE [result |-> RInt(IF key \in DOMAIN c.store THEN 1 ELSE 0), c |-> c]

\* the Redis server behind redis.from_url(..., decode_responses=True): a
\* key whose time to live has passed is not there for any command
Live(c) ==
    LET gone == {k \in DOMAIN c.expiry : now > c.expiry[k]}
    IN  [store |-> [k \in DOMAIN c.store \ gone |-> c.store[k]],
         expiry |-> [k \in (DOMAIN c.expiry \cap DOMAIN c.store) \ gone |-> c.expiry[k]]]

\* GET
Redis_get(c, key) ==
    [result |-> IF key \in DOMAIN Live(c).store THEN RStr(Live(c).store[key]) ELSE RNone,
     c |-> Live(c)]

\* SET, and SET with EX: a SET without EX discards the time to live
Redis_set(c, key, value, ex) ==
    [result |-> RInt(1),
     c |-> [store |-> Put(Live(c).store, key, value),
            expiry |-> IF ex # 0 THEN Put(Live(c).expiry, key, now + ex)
                                 ELSE Pop(Live(c).expiry, key)]]

\* SETEX: the time must be positive
Redis_setex(c, key, time_sec, value) ==
    IF time_sec <= 0
        THEN [result |-> RExc("ResponseError"), c |-> Live(c)]
        ELSE Redis_set(c, key, value, time_sec)

\* INCR: a key that is not there counts from 0; the time to live stays
Redis_incr(c, key) ==
    IF key \in DOMAIN Live(c).store /\ ~IsInt(Live(c).store[key])
        THEN [result |-> RExc("ResponseError"), c |-> Live(c)]
        ELSE LET val == (IF key \in DOMAIN Live(c).store
                             THEN Live(c).store[key].digits ELSE 0) + 1
             IN  [result |-> RInt(val),
                  c |-> [Live(c) EXCEPT !.store = Put(Live(c).store, key, str(val))]]

\* DEL: the number of keys removed
Redis_delete(c, key) ==
    [result |-> RInt(IF key \in DOMAIN Live(c).store THEN 1 ELSE 0),
     c |-> [store |-> Pop(Live(c).store, key), expiry |-> Pop(Live(c).expiry, key)]]

\* EXPIRE: only a key that is there gets a time to live
Redis_expire(c, key, seconds) ==
    IF key \in DOMAIN Live(c).store
        THEN [result |-> RInt(1),
              c |-> [Live(c) EXCEPT !.expiry = Put(Live(c).expiry, key, now + seconds)]]
        ELSE [result |-> RInt(0), c |-> Live(c)]

\* TTL: -2 for a key that is not there, -1 for one with no time to live
Redis_ttl(c, key) ==
    [result |-> IF key \notin DOMAIN Live(c).store THEN RInt(-2)
                ELSE IF key \notin DOMAIN Live(c).expiry THEN RInt(-1)
                ELSE RInt(Live(c).expiry[key] - now),
     c |-> Live(c)]

\* EXISTS
Redis_exists(c, key) ==
    [result |-> RInt(IF key \in DOMAIN Live(c).store THEN 1 ELSE 0), c |-> Live(c)]

\* init_redis: redis_client is a Redis connection, or an InMemoryRedis when
\* the server does not answer; rc is [kind, c]
RedisKinds == {"redis", "memory"}

redis_get(rc, key) ==
    IF rc.kind = "memory" THEN InMemoryRedis_get(rc.c, key) ELSE Redis_get(rc.c, key)
redis_setex(rc, key, time_sec, value) ==
    IF rc.kind = "memory" THEN InMemoryRedis_setex(rc.c, key, time_sec, value)
                          ELSE Redis_setex(rc.c, key, time_sec, value)
redis_incr(rc, key) ==
    IF rc.kind = "memory" THEN InMemoryRedis_incr(rc.c, key) ELSE Redis_incr(rc.c, key)
redis_delete(rc, key) ==
    IF rc.kind = "memory" THEN InMemoryRedis_delete(rc.c, key) ELSE Redis_delete(rc.c, key)
redis_expire(rc, key, seconds) ==
    IF rc.kind = "memory" THEN InMemoryRedis_expire(rc.c, key, seconds)
                          ELSE Redis_expire(rc.c, key, seconds)
redis_ttl(rc, key) ==
    IF rc.kind = "memory" THEN InMemoryRedis_ttl(rc.c, key) ELSE Redis_ttl(rc.c, key)
\* a redis_client whose exists finds no key
redis_exists_no_key(rc, key) == [result |-> RInt(0), c |-> rc.c]
redis_exists(rc, key) ==
    IF rc.kind = "memory" THEN InMemoryRedis_exists(rc.c, key) ELSE Redis_exists(rc.c, key)

\* redis_client after a call
After(rc, call) == [rc EXCEPT !.c = call.c]

(* ----------------------------- auth_routes ---------------------------- *)

\* auth_routes.py: the failures that lock an account, and the time it stays
\* locked (900 seconds, in the minutes of the clock)
MAX_FAILED_LOGINS == 5
LOCK_DURATION == 15

\* the password and the recovery key every user signs up with, and the
\* other texts a request may carry
Password == Str("password1")
WrongPassword == Str("password0")
NewPassword == Str("password2")
RecoveryKey == Str("recovery")

\* the columns of a User row after signup: hash_password(password), the
\* column defaults, and the hash of the recovery key
NewAccount ==
    [password_hash |-> hashpw(Password), failed_attempts |-> 0, is_locked |-> FALSE,
     recovery_key_hash |-> hashpw(RecoveryKey)]

\* verify_password(password, password_hash)
verify_password(password, password_hash) == checkpw(password, password_hash)

\* POST /api/auth/login: username is the name of user u; an exception of a
\* redis_client call is a 500
login(u, password) ==
    IF password = EmptyStr
        THEN Same(400, "Username and password are required")
    ELSE IF u \notin users
        THEN Logged(Same(401, "Invalid credentials"),
                    log_action(0, "login", "failure", "Unknown user", NoAddr))
    ELSE LET lock_key == Key("lock", u)
             attempts_key == Key("failed", u)
             locked == redis_exists(cache, lock_key)
             ttl == redis_ttl(After(cache, locked), lock_key)
             attempts == redis_incr(After(cache, locked), attempts_key)
             expired == redis_expire(After(cache, attempts), attempts_key, LOCK_DURATION)
             lock == redis_setex(After(cache, expired), lock_key, LOCK_DURATION,
                                 Text("locked"))
             reset == redis_delete(After(cache, locked), attempts_key)
         IN  IF locked.result.kind # "int"
                 THEN Same(500, locked.result.kind)
             ELSE IF locked.result.n # 0
                 THEN Logged([Same(423, "Account is locked due to too many failed attempts")
                                  EXCEPT !.cache = After(cache, ttl)],
                             log_action(u, "login", "failure", "Account is locked", NoAddr))
             ELSE IF ~verify_password(password, accounts[u].password_hash)
                 THEN IF attempts.result.kind # "int"
                          THEN [Same(500, attempts.result.kind) EXCEPT
                                    !.cache = After(cache, locked)]
                      ELSE IF attempts.result.n >= MAX_FAILED_LOGINS
                          THEN Logged([Same(423, "Account locked due to too many failed attempts")
                                           EXCEPT
                                           !.cache = After(cache, lock),
                                           !.accounts = [accounts EXCEPT
                                               ![u].failed_attempts = attempts.result.n,
                                               ![u].is_locked = TRUE]],
                                      log_action(u, "login", "failure",
                                                 "Account locked after 5 failed attempts",
                                                 NoAddr))
                          ELSE Logged([Same(401, "Invalid credentials") EXCEPT
                                           !.cache = After(cache, expired),
                                           !.accounts = [accounts EXCEPT
                                               ![u].failed_attempts = attempts.result.n]],
                                      log_action(u, "login", "failure", "Wrong password",
                                                 NoAddr))
                 ELSE Logged([Same(200, "") EXCEPT
                                  !.cache = After(cache, reset),
                                  !.accounts = [accounts EXCEPT
                                      ![u].failed_attempts = 0, ![u].is_locked = FALSE]],
                             log_action(u, "login", "success", "Login", NoAddr))

\* POST /api/auth/recovery-key/verify: the new password is set and the
\* lockout columns are reset; no key of redis_client is touched
verify_recovery_key(u, recovery_key, new_password) ==
    IF recovery_key = EmptyStr \/ new_password = EmptyStr
        THEN Same(400, "username, recovery_key, and new_password are required")
    ELSE IF u \notin users
        THEN Same(404, "User not found")
    ELSE IF accounts[u].recovery_key_hash = NoHash
        THEN Same(400, "No recovery key set for this account")
    ELSE IF ~verify_password(recovery_key, accounts[u].recovery_key_hash)
        THEN Logged(Same(401, "Invalid recovery key"),
                    log_action(u, "recovery_key_verify", "failure", "Invalid recovery key",
                               NoAddr))
        ELSE Logged([Same(200, "") EXCEPT
                         !.accounts = [accounts EXCEPT
                             ![u].password_hash = hashpw(new_password),
                             ![u].is_locked = FALSE, ![u].failed_attempts = 0]],
                    log_action(u, "recovery_key_verify", "success",
                               "Password reset via recovery key", NoAddr))

(* ----------------------------- ids_service ---------------------------- *)

\* the window of check_brute_force (minutes) and the failures it allows
BRUTE_FORCE_MINUTES == 10
BRUTE_FORCE_LIMIT == 5

\* check_brute_force(user_id): more than 5 failed logins of the user in the
\* last 10 minutes raise an alert, unless an open one of the window exists,
\* and set is_locked; both comparisons of time are made by the database
check_brute_force(user_id) ==
    LET cutoff == now - BRUTE_FORCE_MINUTES
        failed_count ==
            Cardinality({i \in 1..Len(audit) :
                /\ audit[i].user_id = user_id
                /\ audit[i].action = "login"
                /\ audit[i].status = "failure"
                /\ audit[i].timestamp.t >= cutoff})
        existing ==
            {a \in alerts : /\ a.user_id = user_id
                            /\ a.alert_type = "brute_force"
                            /\ ~a.resolved
                            /\ a.timestamp.t >= cutoff}
        alert == [id |-> NextId(alerts), user_id |-> user_id,
                  alert_type |-> "brute_force", resolved |-> FALSE,
                  timestamp |-> [t |-> now, tzinfo |-> "None"]]
    IN  IF failed_count > BRUTE_FORCE_LIMIT /\ existing = {}
            THEN [Same(200, "alert") EXCEPT
                     !.alerts = alerts \cup {alert},
                     !.accounts = IF user_id \in users
                                      THEN [accounts EXCEPT ![user_id].is_locked = TRUE]
                                      ELSE accounts]
            ELSE Same(200, "None")

(* ------------------------------ otp_utils ----------------------------- *)

\* generate_otp: the default expiry (300 seconds, in the minutes of the clock)
OTP_EXPIRY == 5

\* the codes random.choices draws: strings of six digits
OtpCodes == {str(111111), str(222222)}

\* generate_otp(user_id) drawing the code otp
generate_otp(user_id, code) == redis_setex(cache, Key("otp", user_id), OTP_EXPIRY, code)

\* the threads that may be inside verify_otp
Callers == 1..2

\* no call of verify_otp under way; trues counts, for each user, the calls
\* that returned True since the user's last generate_otp
NoCalls ==
    [call |-> [p \in Callers |->
                  [pc |-> "idle", user_id |-> 0, otp |-> str(0), stored |-> RNone]],
     returned |-> [p \in Callers |-> "none"],
     trues |-> [u \in Users |-> 0]]

\* the state no request of the login, the intrusion check or the OTP calls
\* has touched
NoAuth ==
    /\ cache = [kind |-> "redis", c |-> NoKeys]
    /\ accounts = [u \in Users |-> NewAccount]
    /\ alerts = {}
    /\ twin = [c |-> NoKeys, op |-> "none", mem |-> RNone, red |-> RNone]
    /\ otp = NoCalls
    /\ firstRole = [r \in RoomIds |-> [u \in Users |-> "none"]]

(* ------------------------------- Init --------------------------------- *)

\* no round trip under way
NoCipher ==
    [pc |-> "none", data |-> <<>>, passphrase |-> EmptyStr, algorithm |-> "",
     enc |-> [ciphertext |-> <<>>, salt |-> 0, nonce_or_iv |-> 0, tag |-> None],
     key |-> EmptyStr, out |-> [exc |-> NoExc, value |-> <<>>]]

\* the tables and the content store of a fresh deployment
InitStore ==
    /\ users = {}
    /\ keys = {}
    /\ rooms = {}
    /\ roomMembers = {}
    /\ roomKeys = {}
    /\ files = {}
    /\ disk = {}
    /\ content = <<>>
    /\ shares = {}
    /\ locks = {}
    /\ versions = {}
    /\ now = 0
    /\ req = Idle
    /\ last = [op |-> "none", status |-> 0, msg |-> "", sent |-> None]

\* no call of secure_delete_file made yet
NoCall ==
    [pc |-> "idle", filepath |-> 0, passes |-> 0, pass_num |-> 0, file_size |-> 0,
     written |-> <<>>, flushed |-> 0, synced |-> 0, returned |-> <<>>]

\* no call of store_encrypted_key or retrieve_master_key recorded yet
NoStore ==
    [stored |-> [u \in Users |-> <<>>],
     got |-> [user_id |-> 0, value |-> [found |-> FALSE, key |-> [mk |-> 0]]]]

Init ==
    /\ InitStore
    /\ cx = NoCipher
    /\ sd = NoCall
    /\ ks = NoStore
    /\ audit = <<>>
    /\ NoAuth

(* ------------------------------ actions ------------------------------- *)

\* the files uploaded: a content of one AES block and a byte
FileData == {[i \in 1..17 |-> 7]}

\* the model's bounds: no primary key and no path beyond the largest
Bounded(e) ==
    /\ \A r \in e.rooms : r.id <= MaxRooms
    /\ \A m \in e.roomMembers : m.id <= MaxMemberId
    /\ \A f \in e.files : f.id <= MaxFileId
    /\ \A p \in e.disk : p <= MaxFileId + Cardinality(e.versions)
    /\ \A l \in e.shares : l.id <= MaxShares
    /\ \A v \in e.versions : v.id <= MaxVersions

\* the handler's effect becomes the tables and the content store
Commits(e) ==
    /\ Bounded(e)
    /\ users' = e.users
    /\ keys' = e.keys
    /\ rooms' = e.rooms
    /\ roomMembers' = e.roomMembers
    /\ roomKeys' = e.roomKeys
    /\ files' = e.files
    /\ disk' = e.disk
    /\ content' = e.content
    /\ shares' = e.shares
    /\ locks' = e.locks
    /\ versions' = e.versions

\* the handler's effect becomes the state
Apply(e) == Commits(e) /\ UNCHANGED <<now, req, aux>>

\* one request served: its effect, and its response as the caller sees it
Serve(op, e) ==
    /\ Apply(e)
    /\ last' = [op |-> op, status |-> e.status, msg |-> e.msg, sent |-> e.sent]

\* jwt_required: the caller holds a token, so a User row of theirs exists
Signup ==
    \E u \in Users :
        \/ Serve("signup", signup_create_user(u))
        \/ u \in users /\ KeyRows(u) = {} /\ Serve("signup", signup_store_key(u))

CreateRoom ==
    \E u \in users, has_name \in BOOLEAN :
        Serve("create_room", create_room_endpoint(u, has_name))

AddMember ==
    \E a \in users, r \in RoomIds, u \in Users, role \in RequestRoles :
        Serve("add_member", add_member_endpoint(a, r, u, role))

RemoveMember ==
    \E a \in users, r \in RoomIds, u \in Users :
        Serve("remove_member", remove_member_endpoint(a, r, u))

ChangeRole ==
    \E a \in users, r \in RoomIds, u \in Users, role \in RequestRoles :
        Serve("change_role", change_role_endpoint(a, r, u, role))

GetRoom ==
    \E u \in users, r \in RoomIds : Serve("get_room", get_room(u, r))

ListRoomFiles ==
    \E u \in users, r \in RoomIds : Serve("list_room_files", list_room_files(u, r))

UploadRoomFile ==
    \E u \in users, r \in RoomIds, has_file \in BOOLEAN,
       algorithm \in {"AES-GCM", "ROT13"}, file_data \in FileData :
        Serve("upload_room_file",
              upload_room_file(u, r, has_file, algorithm, EmptyStr, file_data))

DecryptRoomFile ==
    \E u \in users, r \in RoomIds, f \in FileIds :
        Serve("decrypt_room_file", decrypt_room_file(u, r, f, EmptyStr))

DeleteRoomFile ==
    \E u \in users, r \in RoomIds, f \in FileIds :
        Serve("delete_room_file", delete_room_file(u, r, f))

DeleteFile ==
    \E u \in users, f \in FileIds : Serve("delete_file", delete_file(u, f))

Next ==
    \/ Signup \/ CreateRoom \/ AddMember \/ RemoveMember \/ ChangeRole
    \/ GetRoom \/ ListRoomFiles \/ UploadRoomFile \/ DecryptRoomFile
    \/ DeleteRoomFile \/ DeleteFile

Spec == Init /\ [][Next]_vars

\* the file locks, over the files of a room

AcquireLock ==
    \E u \in users, f \in FileIds : Serve("acquire_lock", acquire_lock(u, f))

ReleaseLock ==
    \E u \in users, f \in FileIds : Serve("release_lock", release_lock(u, f))

CheckLock ==
    \E u \in users, f \in FileIds : Serve("check_lock", check_lock(u, f))

\* time passes, a lease at a time
Tick ==
    /\ now + DEFAULT_LOCK_TIMEOUT_MINUTES <= MaxClock
    /\ now' = now + DEFAULT_LOCK_TIMEOUT_MINUTES
    /\ UNCHANGED <<db, req, last, aux>>

\* an acquire_lock request runs its queries, finds no lock, and waits
AcquireRead ==
    /\ req.pc = "idle"
    /\ \E u \in users, f \in FileIds :
        /\ \E row \in FileRows(f) : row.owner_id = u \/ row.room_id # NoRoom
        /\ LockRows(f) = {}
        /\ req' = acquire_checked(u, f)
    /\ UNCHANGED <<db, now, last, aux>>

\* it inserts its lock row and commits
AcquireCommit ==
    /\ req.pc = "checked"
    /\ req.op = "acquire_lock"
    /\ Bounded(acquire_commit(req))
    /\ locks' = acquire_commit(req).locks
    /\ last' = [op |-> "acquire_lock", status |-> acquire_commit(req).status,
                msg |-> acquire_commit(req).msg, sent |-> None]
    /\ req' = Idle
    /\ UNCHANGED <<users, keys, rooms, roomMembers, roomKeys, files, disk, content, shares,
                   versions,
                   now, aux>>

LockNext ==
    \/ Signup \/ CreateRoom \/ UploadRoomFile \/ DeleteFile
    \/ AcquireLock \/ ReleaseLock \/ CheckLock \/ Tick
    \/ AcquireRead \/ AcquireCommit

SpecLock == Init /\ [][LockNext]_vars

\* the same tables with no response recorded: the rooms, members and keys
\* alone, under the room operations
Quiet(e) == Apply(e) /\ UNCHANGED last

DbSignup ==
    \E u \in Users :
        \/ Quiet(signup_create_user(u))
        \/ u \in users /\ KeyRows(u) = {} /\ Quiet(signup_store_key(u))

DbCreateRoom ==
    \E u \in users, has_name \in BOOLEAN : Quiet(create_room_endpoint(u, has_name))

DbAddMember ==
    \E a \in users, r \in RoomIds, u \in Users, role \in RequestRoles :
        Quiet(add_member_endpoint(a, r, u, role))

DbRemoveMember ==
    \E a \in users, r \in RoomIds, u \in Users :
        Quiet(remove_member_endpoint(a, r, u))

DbChangeRole ==
    \E a \in users, r \in RoomIds, u \in Users, role \in RequestRoles :
        Quiet(change_role_endpoint(a, r, u, role))

DbNext == DbSignup \/ DbCreateRoom \/ DbAddMember \/ DbRemoveMember \/ DbChangeRole

SpecDb == Init /\ [][DbNext]_vars

\* membership requests served while one other membership request is between
\* its queries: each query and the commit of that one is a step of its own

\* the request passes check_permission
ReqCheck ==
    /\ req.pc = "idle"
    /\ \E actor \in users, room_id \in RoomIds, user_id \in Users :
        \E op \in {"add_member", "remove_member", "change_role"} :
        \E role \in IF op = "remove_member" THEN {"none"} ELSE RequestRoles :
            /\ check_permission(room_id, actor, RequiredRole(op))
            /\ req' = Checked(op, actor, room_id, user_id, role)
    /\ UNCHANGED <<db, now, last, aux>>

\* it runs its other queries
ReqLoad ==
    /\ req.pc = "checked"
    /\ req.op # "acquire_lock"
    /\ req' = CASE req.op = "add_member" -> add_member_load(req)
                [] req.op = "remove_member" -> remove_member_load(req)
                [] req.op = "change_role" -> change_role_load(req)
    /\ UNCHANGED <<db, now, last, aux>>

\* the tables a service outcome leaves
Commit(out) ==
    /\ \A m \in out.roomMembers : m.id <= MaxMemberId
    /\ rooms' = out.rooms
    /\ roomMembers' = out.roomMembers
    /\ roomKeys' = out.roomKeys
    /\ UNCHANGED <<users, keys, files, disk, content, shares, locks, versions>>

\* it commits
ReqCommit ==
    /\ req.pc = "loaded"
    /\ Commit(CASE req.op = "add_member" -> add_member_commit(req)
                [] req.op = "remove_member" -> remove_member_commit(req)
                [] req.op = "change_role" -> change_role_commit(req))
    /\ req' = Idle
    /\ UNCHANGED <<now, last, aux>>

ConcNext == DbNext \/ ReqCheck \/ ReqLoad \/ ReqCommit

SpecConc == Init /\ [][ConcNext]_vars

(* ------------------------------ the vault ---------------------------- *)

\* requests to the personal vault and to share links, with room uploads
\* under each algorithm, over a content store whose files can be altered
VaultPassphrases == {EmptyStr, Str("pw1"), Str("pw2")}
SharePassphrases == {EmptyStr, Str("sp")}

UploadRoomFileAny ==
    \E u \in users, r \in RoomIds, algorithm \in ALGORITHM_MAP, file_data \in FileData :
        Serve("upload_room_file",
              upload_room_file(u, r, TRUE, algorithm, EmptyStr, file_data))

DecryptRoomFileAny ==
    \E u \in users, r \in RoomIds, f \in FileIds, passphrase \in {EmptyStr, Str("pw1")} :
        Serve("decrypt_room_file", decrypt_room_file(u, r, f, passphrase))

UploadFile ==
    \E u \in users, has_file \in BOOLEAN, passphrase \in {EmptyStr, Str("pw1")},
       algorithm \in ALGORITHM_MAP \cup {"ROT13"},
       expiry_hours \in {NoExpiry, Hours(0), Hours(15)}, plaintext \in FileData :
        Serve("upload_file",
              upload_file(u, has_file, passphrase, algorithm, expiry_hours, plaintext))

DecryptFile ==
    \E u \in users, f \in FileIds, passphrase \in VaultPassphrases :
        Serve("decrypt_file_route", decrypt_file_route(u, f, passphrase))

CreateShareLink ==
    \E u \in users, f \in FileIds \cup {0},
       expiry_hours \in {Hours(0), Hours(15), [Hours(0) EXCEPT !.valid = FALSE]},
       passphrase \in SharePassphrases :
        Serve("create_share_link", create_share_link(u, f, expiry_hours, passphrase))

AccessSharedFile ==
    \E token \in 0..MaxShares, encryption_passphrase \in VaultPassphrases,
       share_passphrase \in SharePassphrases :
        Serve("access_shared_file",
              access_shared_file(token, encryption_passphrase, share_passphrase))

\* someone with access to the content store alters a byte of a stored file,
\* its first or its last
Tamper ==
    /\ \E p \in disk : \E i \in {1, Len(content[p])} :
          content' = [content EXCEPT ![p] =
                         [content[p] EXCEPT ![i] = [@ EXCEPT !.at = 0]]]
    /\ UNCHANGED <<users, keys, rooms, roomMembers, roomKeys, files, disk, shares, locks,
                   versions,
                   now, req, last, aux>>

\* the deployment after users 1 and 2 have signed up and user 1 has created
\* room 1 (a state of Spec)
VaultStore ==
    /\ users = {1, 2}
    /\ keys = {[user_id |-> u, encrypted_master_key |-> b64encode(generate_master_key(u))] :
                  u \in {1, 2}}
    /\ rooms = {[id |-> 1, owner_id |-> 1]}
    /\ roomMembers = {[id |-> 1, room_id |-> 1, user_id |-> 1, role |-> "owner"]}
    /\ roomKeys = {[room_id |-> 1, user_id |-> 1,
                    encrypted_room_key |->
                        encrypt_room_key(generate_room_key(1), generate_master_key(1))]}
    /\ files = {}
    /\ disk = {}
    /\ content = <<>>
    /\ shares = {}
    /\ locks = {}
    /\ versions = {}
    /\ now = 0
    /\ req = Idle
    /\ last = [op |-> "create_room", status |-> 201, msg |-> "", sent |-> None]

InitVault ==
    /\ VaultStore
    /\ cx = NoCipher
    /\ sd = NoCall
    /\ ks = NoStore
    /\ audit = <<>>
    /\ NoAuth

VaultNext ==
    \/ UploadRoomFileAny \/ DecryptRoomFileAny
    \/ UploadFile \/ DecryptFile \/ CreateShareLink \/ AccessSharedFile
    \/ DeleteFile \/ DeleteRoomFile \/ Tamper

SpecVault == InitVault /\ [][VaultNext]_vars

(* ------------------- encrypt_file and decrypt_file -------------------- *)

\* the plaintexts tried: every length up to MaxPlainLen, which is past one AES
\* block, of a byte that is a padding value too (16) or is none (7)
MaxPlainLen == 17
PlainBytes == {7, 16}
Plaintexts == {[i \in 1..n |-> b] : n \in 0..MaxPlainLen, b \in PlainBytes}
Passphrases == {Str("pw1"), Str("pw2")}
\* what os.urandom may give for the salt and for the nonce or iv
Urandom == {[salt |-> s, nonce |-> n] : s \in 1..2, n \in 1..2}

InitCipher ==
    /\ InitStore
    /\ sd = NoCall
    /\ ks = NoStore
    /\ audit = <<>>
    /\ NoAuth
    /\ \E data \in Plaintexts, passphrase \in Passphrases,
          algorithm \in ALGORITHM_MAP \cup {"ROT13"} :
           cx = [NoCipher EXCEPT !.pc = "input", !.data = data,
                                 !.passphrase = passphrase, !.algorithm = algorithm]

\* encrypt_file(data, passphrase, algorithm)
Encrypt ==
    /\ cx.pc = "input"
    /\ \E urandom \in Urandom :
         LET r == encrypt_file(cx.data, cx.passphrase, cx.algorithm, urandom)
         IN  cx' = IF r.exc # NoExc
                       THEN [cx EXCEPT !.pc = "raised", !.out = [exc |-> r.exc, value |-> <<>>]]
                       ELSE [cx EXCEPT !.pc = "encrypted", !.enc = r.value]
    /\ UNCHANGED <<db, now, req, last, sd, ks, audit, auth>>

\* decrypt_file of what encrypt_file returned, under a passphrase
Decrypt ==
    /\ cx.pc = "encrypted"
    /\ \E passphrase \in Passphrases :
         cx' = [cx EXCEPT !.pc = "decrypted", !.key = passphrase,
                          !.out = decrypt_file(cx.enc.ciphertext, passphrase, cx.algorithm,
                                               cx.enc.salt, cx.enc.nonce_or_iv, cx.enc.tag)]
    /\ UNCHANGED <<db, now, req, last, sd, ks, audit, auth>>

CipherNext == Encrypt \/ Decrypt

SpecCipher == InitCipher /\ [][CipherNext]_vars

(* ------------------- secure_delete_file, step by step ----------------- *)

\* the files deleted have up to MaxSize bytes; a call asks for up to
\* MaxPasses passes; MaxCalls calls are made
MaxSize == 2
MaxPasses == 4
MaxCalls == 2
\* the bytes os.urandom gives, of the 256
RandomBytes == {0, 255}

\* os.urandom(n)
urandom(n) == [1..n -> RandomBytes]

\* bytes(~b & 0xFF for b in random_data), on 8-bit bytes
complement(random_data) ==
    [i \in 1..Len(random_data) |-> (0 - random_data[i] - 1) % 256]

\* what pass pass_num writes, given the bytes os.urandom gave it
pass_data(pass_num, random_data) ==
    IF pass_num = 1 THEN complement(random_data) ELSE random_data

\* os.remove leaving the file where it is
os_remove_nothing(filepath) == [disk |-> disk, content |-> content]

\* os.remove(filepath)
os_remove(filepath) ==
    [disk |-> disk \ {filepath}, content |-> [p \in disk \ {filepath} |-> content[p]]]

\* a content store with files of every size the call is tried on
InitDelete ==
    /\ users = {} /\ keys = {} /\ rooms = {} /\ roomMembers = {} /\ roomKeys = {}
    /\ files = {} /\ shares = {} /\ locks = {} /\ versions = {}
    /\ now = 0 /\ req = Idle
    /\ last = [op |-> "none", status |-> 0, msg |-> "", sent |-> None]
    /\ cx = NoCipher
    /\ sd = NoCall
    /\ ks = NoStore
    /\ audit = <<>>
    /\ NoAuth
    /\ disk \in SUBSET FileIds
    /\ \E n \in 0..MaxSize : content = [p \in disk |-> [i \in 1..n |-> 7]]

\* secure_delete_file(filepath, passes) up to the loop: False for a path
\* that does not exist, else the size is taken and the file opened
SdCall ==
    /\ sd.pc = "idle"
    /\ Len(sd.returned) < MaxCalls
    /\ \E filepath \in FileIds, passes \in 0..MaxPasses :
          sd' = IF ~exists(filepath)
                    THEN [sd EXCEPT !.filepath = filepath, !.passes = passes,
                             !.returned = Append(@, [filepath |-> filepath, value |-> FALSE])]
                    ELSE [sd EXCEPT !.pc = "loop", !.filepath = filepath,
                             !.passes = passes, !.pass_num = 0,
                             !.file_size = Len(content[filepath]),
                             !.written = <<>>, !.flushed = 0, !.synced = 0]
    /\ UNCHANGED <<db, now, req, last, cx, ks, audit, auth>>

\* one pass: f.seek(0) and f.write of file_size bytes
SdWrite ==
    /\ sd.pc = "loop"
    /\ sd.pass_num < sd.passes
    /\ \E random_data \in urandom(sd.file_size) :
          sd' = [sd EXCEPT !.pc = "written",
                           !.written = Append(@, pass_data(sd.pass_num, random_data))]
    /\ UNCHANGED <<db, now, req, last, cx, ks, audit, auth>>

\* f.flush(): what was written reaches the file
SdFlush ==
    /\ sd.pc = "written"
    /\ sd' = [sd EXCEPT !.pc = "flushed", !.flushed = @ + 1]
    /\ content' = [content EXCEPT ![sd.filepath] = sd.written[Len(sd.written)]]
    /\ UNCHANGED <<users, keys, rooms, roomMembers, roomKeys, files, disk, shares, locks,
                   versions,
                   now, req, last, cx, ks, audit, auth>>

\* os.fsync(f.fileno()): the file reaches the disk; the next pass
SdFsync ==
    /\ sd.pc = "flushed"
    /\ sd' = [sd EXCEPT !.pc = "loop", !.synced = @ + 1, !.pass_num = @ + 1]
    /\ UNCHANGED <<db, now, req, last, cx, ks, audit, auth>>

\* the loop is over: os.remove(filepath) and return True
SdRemove ==
    /\ sd.pc = "loop"
    /\ sd.pass_num >= sd.passes
    /\ sd' = [sd EXCEPT !.pc = "idle",
                        !.returned = Append(@, [filepath |-> sd.filepath, value |-> TRUE])]
    /\ disk' = os_remove(sd.filepath).disk
    /\ content' = os_remove(sd.filepath).content
    /\ UNCHANGED <<users, keys, rooms, roomMembers, roomKeys, files, shares, locks,
                   versions,
                   now, req, last, cx, ks, audit, auth>>

DeleteNext == SdCall \/ SdWrite \/ SdFlush \/ SdFsync \/ SdRemove

SpecDelete == InitDelete /\ [][DeleteNext]_vars

(* ----------------------- snapshots and restores ----------------------- *)

\* version numbers a restore request names
VersionNumbers == 1..(MaxVersions + 1)

\* a personal upload under each cipher
UploadVersioned ==
    \E u \in users, algorithm \in ALGORITHM_MAP, plaintext \in FileData :
        Serve("upload_file",
              upload_file(u, TRUE, Str("pw1"), algorithm, NoExpiry, plaintext))

CreateVersion ==
    \E u \in users, f \in FileIds : Serve("create_version", create_version(u, f))

RestoreVersion ==
    \E u \in users, f \in FileIds, n \in VersionNumbers :
        Serve("restore_version", restore_file_version(u, f, n))

VersionNext ==
    \/ UploadVersioned \/ CreateVersion \/ RestoreVersion \/ DeleteFile

SpecVersion == InitVault /\ [][VersionNext]_vars

(* ------------------------ share links over time ----------------------- *)

\* the files shared: two contents of one AES block and a byte
SharedData == FileData \cup {[i \in 1..17 |-> 8]}

UploadShared ==
    \E u \in users, plaintext \in SharedData :
        Serve("upload_file",
              upload_file(u, TRUE, Str("pw1"), "AES-GCM", NoExpiry, plaintext))

ShareNext ==
    \/ UploadShared \/ CreateShareLink \/ AccessSharedFile \/ DeleteFile \/ Tick

SpecShare == InitVault /\ [][ShareNext]_vars

(* --------------------- a held lock and the file ----------------------- *)

UploadHeld ==
    \E u \in users, r \in RoomIds, file_data \in FileData :
        Serve("upload_room_file",
              upload_room_file(u, r, TRUE, "AES-GCM", EmptyStr, file_data))

AddHeld ==
    \E a \in users, r \in RoomIds, u \in users :
        Serve("add_member", add_member_endpoint(a, r, u, "member"))

HeldNext ==
    \/ AddHeld \/ UploadHeld \/ AcquireLock \/ ReleaseLock \/ Tick
    \/ CreateVersion \/ RestoreVersion \/ DeleteFile \/ DeleteRoomFile

SpecHeld == InitVault /\ [][HeldNext]_vars

(* ------------------- the requests and the audit table ----------------- *)

\* the largest number of rows the audit table gets
MaxAudit == 4

\* one request served by user_id: its effect, its response, and the rows its
\* log_action calls commit
Audited(op, user_id, e) ==
    /\ Len(audit) + Len(e.logged) <= MaxAudit
    /\ Commits(e)
    /\ audit' = audit \o e.logged
    /\ last' = [op |-> op, status |-> e.status, msg |-> e.msg, sent |-> e.sent]
    /\ req' = [Idle EXCEPT !.op = op, !.actor = user_id]
    /\ UNCHANGED <<now, cx, sd, ks, auth>>

AuSignup ==
    \E u \in 1..2 :
        \/ Audited("signup", u, signup_create_user(u))
        \/ u \in users /\ KeyRows(u) = {} /\ Audited("signup", u, signup_store_key(u))

AuCreateRoom ==
    \E u \in users : Audited("create_room", u, create_room_endpoint(u, TRUE))

AuAddMember ==
    \E a \in users, r \in RoomIds, u \in Users :
        Audited("add_member", a, add_member_endpoint(a, r, u, "admin"))

AuRemoveMember ==
    \E a \in users, r \in RoomIds, u \in Users :
        Audited("remove_member", a, remove_member_endpoint(a, r, u))

AuChangeRole ==
    \E a \in users, r \in RoomIds, u \in Users :
        Audited("change_role", a, change_role_endpoint(a, r, u, "viewer"))

AuUploadRoomFile ==
    \E u \in users, r \in RoomIds, file_data \in FileData :
        Audited("upload_room_file", u,
                upload_room_file(u, r, TRUE, "AES-GCM", EmptyStr, file_data))

AuDeleteRoomFile ==
    \E u \in users, r \in RoomIds, f \in FileIds :
        Audited("delete_room_file", u, delete_room_file(u, r, f))

AuUploadFile ==
    \E u \in users, plaintext \in FileData :
        Audited("upload_file", u,
                upload_file(u, TRUE, Str("pw1"), "AES-GCM", NoExpiry, plaintext))

AuDeleteFile ==
    \E u \in users, f \in FileIds : Audited("delete_file", u, delete_file(u, f))

AuAcquireLock ==
    \E u \in users, f \in FileIds : Audited("acquire_lock", u, acquire_lock(u, f))

AuReleaseLock ==
    \E u \in users, f \in FileIds : Audited("release_lock", u, release_lock(u, f))

AuCreateVersion ==
    \E u \in users, f \in FileIds : Audited("create_version", u, create_version(u, f))

AuRestoreVersion ==
    \E u \in users, f \in FileIds :
        Audited("restore_version", u, restore_file_version(u, f, 1))

AuditNext ==
    \/ AuSignup \/ AuCreateRoom \/ AuAddMember \/ AuRemoveMember \/ AuChangeRole
    \/ AuUploadRoomFile \/ AuDeleteRoomFile \/ AuUploadFile \/ AuDeleteFile
    \/ AuAcquireLock \/ AuReleaseLock \/ AuCreateVersion \/ AuRestoreVersion

SpecAudit == Init /\ [][AuditNext]_vars

(* -------- store_encrypted_key and retrieve_master_key, called --------- *)

\* the largest number of store_encrypted_key calls for one user
MaxStores == 2

\* the keys a caller passes: 32 random bytes, here one of three values
MasterKeys == {generate_master_key(k) : k \in 1..NumUsers}

\* store_encrypted_key(user_id, master_key), and the key it was given
StoreKey ==
    \E u \in Users, master_key \in MasterKeys :
        /\ Len(ks.stored[u]) < MaxStores
        /\ keys' = store_encrypted_key(u, master_key)
        /\ ks' = [ks EXCEPT !.stored[u] = Append(@, master_key)]
        /\ UNCHANGED <<users, rooms, roomMembers, roomKeys, files, disk, content,
                       shares, locks, versions, now, req, last, cx, sd, audit, auth>>

\* retrieve_master_key(user_id), and what it returned
RetrieveKey ==
    \E u \in Users :
        /\ ks' = [ks EXCEPT !.got = [user_id |-> u, value |-> retrieve_master_key(u)]]
        /\ UNCHANGED <<db, now, req, last, cx, sd, audit, auth>>

KeyNext == StoreKey \/ RetrieveKey

SpecKey == Init /\ [][KeyNext]_vars

(* ------------------------- cleanup_scheduler -------------------------- *)

\* the files the sweep may hold (it is followed over two files, so that a
\* run meets an expired file next to one that is not)
MaxSweepFiles == 2

\* File.query.filter(File.expiry_time.isnot(None), File.expiry_time <= now):
\* the comparison is made by the database, on the naive values of both sides
ExpiredFiles == {f \in files : f.expiry_time # NoTime /\ f.expiry_time.t <= now}

\* a File row the session marked deleted cannot be flushed while a
\* ShareLink, FileVersion or FileLock row points at it: no relationship has
\* a delete cascade, so the ORM sets the child's file_id to NULL, and the
\* column is NOT NULL
Blocked(pending) ==
    \E f \in pending :
        ShareRows(f.id) # {} \/ VersionRows(f.id) # {} \/ LockRows(f.id) # {}

\* the rest of a run of cleanup_expired_files: e is what the run has done,
\* pending the File rows marked deleted and not yet flushed, order the
\* expired files still to visit. log_action commits, so the delete of each
\* file is flushed by the log_action of the next, and the last one by the
\* commit after the loop; a commit that raises ends the job, and the rows
\* of the failed transaction stay
RECURSIVE sweep_from(_, _, _)
sweep_from(e, pending, order) ==
    IF order = <<>>
        THEN IF Blocked(pending)
                 THEN [e EXCEPT !.status = 500, !.msg = "IntegrityError"]
                 ELSE [e EXCEPT !.files = @ \ pending]
        ELSE LET file_record == Head(order)
                 removed == [e EXCEPT
                     !.disk = @ \ {file_record.encrypted_path},
                     !.content = [p \in e.disk \ {file_record.encrypted_path} |->
                                      e.content[p]]]
             IN  IF Blocked(pending)
                     THEN [removed EXCEPT !.status = 500, !.msg = "IntegrityError"]
                     ELSE sweep_from(
                              Logged([removed EXCEPT !.files = @ \ pending],
                                     log_action(file_record.owner_id, "auto_delete",
                                                "success", "Expired file", "unknown")),
                              {file_record}, Tail(order))

\* the orders a query without ORDER BY may return a set of rows in
Orders(S) ==
    {order \in [1..Cardinality(S) -> S] :
        \A i, j \in 1..Cardinality(S) : i # j => order[i] # order[j]}

\* cleanup_expired_files(app): a run of the job, status 200 for a run that
\* returns and 500 for one that raises; outside a request log_action finds
\* no remote_addr and writes "unknown"
cleanup_expired_files(order) == sweep_from(Same(200, ""), {}, order)

(* --------------------- expiring files and the sweep ------------------- *)

\* the sweep's bounds: two files, and one path for each
SweepBounded(e) ==
    /\ \A f \in e.files : f.id <= MaxSweepFiles
    /\ \A p \in e.disk : p <= MaxSweepFiles
    /\ \A l \in e.shares : l.id <= MaxShares

SweepServe(op, e) ==
    /\ SweepBounded(e)
    /\ users' = e.users
    /\ keys' = e.keys
    /\ rooms' = e.rooms
    /\ roomMembers' = e.roomMembers
    /\ roomKeys' = e.roomKeys
    /\ files' = e.files
    /\ disk' = e.disk
    /\ content' = e.content
    /\ shares' = e.shares
    /\ locks' = e.locks
    /\ versions' = e.versions
    /\ last' = [op |-> op, status |-> e.status, msg |-> e.msg, sent |-> e.sent]
    /\ UNCHANGED <<now, req, aux>>

\* an upload with no expiry, or one the clock of the model can pass
UploadExpiring ==
    \E u \in users, expiry_hours \in {NoExpiry, Hours(15), Hours(30)} :
        /\ now + expiry_hours.minutes <= MaxClock
        /\ SweepServe("upload_file",
               upload_file(u, TRUE, Str("pw1"), "AES-GCM", expiry_hours,
                           CHOOSE d \in FileData : TRUE))

ShareExpiring ==
    \E u \in users, f \in 1..MaxSweepFiles :
        SweepServe("create_share_link", create_share_link(u, f, Hours(15), EmptyStr))

\* the scheduler runs the job
Sweep ==
    \E order \in Orders(ExpiredFiles) :
        SweepServe("cleanup_expired_files", cleanup_expired_files(order))

SweepNext == UploadExpiring \/ ShareExpiring \/ Sweep \/ Tick

SpecSweep == InitVault /\ [][SweepNext]_vars

(* ------------------------- logins and lockout ------------------------- *)

\* the step of the clock between logins (300 seconds)
LoginStep == 5

\* a request to the login routes served: its effect on the tables, on
\* redis_client and on the lockout columns, and its response
LoginServe(op, e) ==
    /\ Commits(e)
    /\ cache' = e.cache
    /\ accounts' = e.accounts
    /\ alerts' = e.alerts
    /\ last' = [op |-> op, status |-> e.status, msg |-> e.msg, sent |-> e.sent]
    /\ UNCHANGED <<now, req, cx, sd, ks, audit, twin, otp, firstRole>>

\* the deployment of VaultStore with either store behind redis_client
InitLogin ==
    /\ VaultStore
    /\ cx = NoCipher
    /\ sd = NoCall
    /\ ks = NoStore
    /\ audit = <<>>
    /\ cache \in {[kind |-> kind, c |-> NoKeys] : kind \in RedisKinds}
    /\ accounts = [u \in Users |-> NewAccount]
    /\ alerts = {}
    /\ twin = [c |-> NoKeys, op |-> "none", mem |-> RNone, red |-> RNone]
    /\ otp = NoCalls
    /\ firstRole = [r \in RoomIds |-> [u \in Users |-> "none"]]

Login ==
    \E u \in Users, password \in {EmptyStr, Password, WrongPassword} :
        LoginServe("login", login(u, password))

\* time passes between two requests
Pass ==
    /\ now + LoginStep <= MaxClock
    /\ now' = now + LoginStep
    /\ UNCHANGED <<db, req, last, aux>>

LoginNext == Login \/ Pass

SpecLogin == InitLogin /\ [][LoginNext]_vars

(* ------------------ InMemoryRedis next to a Redis server -------------- *)

\* the keys and values of the calls, the time to live they give, and the
\* largest count a key is raised to
StoreKeys == {Key("failed", 1)}
StoreValues == {str(1), str(2)}
StoreSeconds == 5
MaxCount == 3

\* one call made of both stores: cache is the InMemoryRedis, twin the Redis
\* server and what each of them returned
Both(op, mem, red) ==
    /\ cache' = [cache EXCEPT !.c = mem.c]
    /\ twin' = [c |-> red.c, op |-> op, mem |-> mem.result, red |-> red.result]
    /\ UNCHANGED <<db, now, req, last, cx, sd, ks, audit, accounts, alerts, otp, firstRole>>

StoreGet ==
    \E key \in StoreKeys :
        Both("get", InMemoryRedis_get(cache.c, key), Redis_get(twin.c, key))

StoreSet ==
    \E key \in StoreKeys, value \in StoreValues, ex \in {0, StoreSeconds} :
        Both("set", InMemoryRedis_set(cache.c, key, value, ex),
                    Redis_set(twin.c, key, value, ex))

StoreSetex ==
    \E key \in StoreKeys, value \in StoreValues :
        Both("setex", InMemoryRedis_setex(cache.c, key, StoreSeconds, value),
                      Redis_setex(twin.c, key, StoreSeconds, value))

StoreIncr ==
    \E key \in StoreKeys :
        /\ key \in DOMAIN cache.c.store => cache.c.store[key].digits < MaxCount
        /\ key \in DOMAIN twin.c.store => twin.c.store[key].digits < MaxCount
        /\ Both("incr", InMemoryRedis_incr(cache.c, key), Redis_incr(twin.c, key))

StoreDelete ==
    \E key \in StoreKeys :
        Both("delete", InMemoryRedis_delete(cache.c, key), Redis_delete(twin.c, key))

StoreExpire ==
    \E key \in StoreKeys :
        Both("expire", InMemoryRedis_expire(cache.c, key, StoreSeconds),
                       Redis_expire(twin.c, key, StoreSeconds))

StoreTtl ==
    \E key \in StoreKeys :
        Both("ttl", InMemoryRedis_ttl(cache.c, key), Redis_ttl(twin.c, key))

StoreExists ==
    \E key \in StoreKeys :
        Both("exists", InMemoryRedis_exists(cache.c, key), Redis_exists(twin.c, key))

InitRedis ==
    /\ InitStore
    /\ cx = NoCipher
    /\ sd = NoCall
    /\ ks = NoStore
    /\ audit = <<>>
    /\ cache = [kind |-> "memory", c |-> NoKeys]
    /\ accounts = [u \in Users |-> NewAccount]
    /\ alerts = {}
    /\ twin = [c |-> NoKeys, op |-> "none", mem |-> RNone, red |-> RNone]
    /\ otp = NoCalls
    /\ firstRole = [r \in RoomIds |-> [u \in Users |-> "none"]]

RedisNext ==
    \/ StoreGet \/ StoreSet \/ StoreSetex \/ StoreIncr \/ StoreDelete
    \/ StoreExpire \/ StoreTtl \/ StoreExists \/ Pass

SpecRedis == InitRedis /\ [][RedisNext]_vars

(* --------------------------- one-time codes --------------------------- *)

\* generate_otp(user_id) is called and draws a code
GenerateOtp ==
    \E u \in {1}, code \in OtpCodes :
        /\ cache' = After(cache, generate_otp(u, code))
        /\ otp' = [otp EXCEPT !.trues[u] = 0]
        /\ UNCHANGED <<db, now, req, last, cx, sd, ks, audit, accounts, alerts, twin, firstRole>>

\* verify_otp(user_id, otp), up to its redis_client.get
VerifyGet ==
    \E p \in Callers, u \in {1}, code \in OtpCodes :
        /\ otp.call[p].pc = "idle"
        /\ cache' = After(cache, redis_get(cache, Key("otp", u)))
        /\ otp' = [otp EXCEPT !.call[p] =
                       [pc |-> "got", user_id |-> u, otp |-> code,
                        stored |-> redis_get(cache, Key("otp", u)).result]]
        /\ UNCHANGED <<db, now, req, last, cx, sd, ks, audit, accounts, alerts, twin, firstRole>>

\* verify_otp from the comparison on: a stored code equal to the caller's is
\* deleted and True returned, else False
VerifyReturn ==
    \E p \in Callers :
        /\ otp.call[p].pc = "got"
        /\ IF otp.call[p].stored.kind = "str" /\ otp.call[p].stored = RStr(otp.call[p].otp)
               THEN /\ cache' = After(cache,
                                      redis_delete(cache, Key("otp", otp.call[p].user_id)))
                    /\ otp' = [otp EXCEPT !.call[p] = NoCalls.call[p],
                                          !.returned[p] = "True",
                                          !.trues[otp.call[p].user_id] = @ + 1]
               ELSE /\ cache' = cache
                    /\ otp' = [otp EXCEPT !.call[p] = NoCalls.call[p],
                                          !.returned[p] = "False"]
        /\ UNCHANGED <<db, now, req, last, cx, sd, ks, audit, accounts, alerts, twin, firstRole>>

OtpNext == GenerateOtp \/ VerifyGet \/ VerifyReturn \/ Pass

SpecOtp == InitLogin /\ [][OtpNext]_vars

(* --------------------------- membership roles -------------------------- *)

\* the role a user holds in a room, "none" for a user who is not a member
RoleOf(room_id, user_id) ==
    IF MemberRows(room_id, user_id) = {} THEN "none"
    ELSE (CHOOSE m \in MemberRows(room_id, user_id) : TRUE).role

\* the caller of a request is the owner of the room, before or after it
OwnerActs(room_id, user_id) ==
    \/ \E r \in rooms : r.id = room_id /\ r.owner_id = user_id
    \/ \E r \in rooms' : r.id = room_id /\ r.owner_id = user_id

\* a membership request served, and the roles first held since the owner's
\* last request
RoleServe(op, user_id, e) ==
    /\ Commits(e)
    /\ last' = [op |-> op, status |-> e.status, msg |-> e.msg, sent |-> e.sent]
    /\ firstRole' =
           [r \in RoomIds |-> [u \in Users |->
               IF OwnerActs(r, user_id) \/ firstRole[r][u] = "none"
                   THEN RoleOf(r, u)' ELSE firstRole[r][u]]]
    /\ UNCHANGED <<now, req, cx, sd, ks, audit, cache, accounts, alerts, twin, otp>>

RoleRequest ==
    \E a \in users, r \in RoomIds, u \in Users, role \in RequestRoles :
        \/ RoleServe("create_room", a, create_room_endpoint(a, TRUE))
        \/ RoleServe("add_member", a, add_member_endpoint(a, r, u, role))
        \/ RoleServe("remove_member", a, remove_member_endpoint(a, r, u))
        \/ RoleServe("change_role", a, change_role_endpoint(a, r, u, role))

RoleNext == Signup \/ RoleRequest

SpecRole == Init /\ [][RoleNext]_vars

(* ------------------- the lockout flag and the lockout ------------------ *)

\* the audit rows the requests below may write
MaxIdsRows == 7

\* the user whose logins are followed
IdsUser == 1

\* the minutes the clock advances by between requests
IdsStep == 15

\* the logins and password resets that may succeed
MaxSuccesses == 1

\* a request served that writes the lockout state and the audit table
IdsServe(op, e) ==
    /\ Len(audit) + Len(e.logged) <= MaxIdsRows
    /\ Cardinality({i \in 1..Len(audit \o e.logged) :
                        (audit \o e.logged)[i].status = "success"}) <= MaxSuccesses
    /\ Commits(e)
    /\ cache' = e.cache
    /\ accounts' = e.accounts
    /\ alerts' = e.alerts
    /\ audit' = audit \o e.logged
    /\ last' = [op |-> op, status |-> e.status, msg |-> e.msg, sent |-> e.sent]
    /\ UNCHANGED <<now, req, cx, sd, ks, twin, otp, firstRole>>

IdsLogin ==
    \E password \in {Password, WrongPassword, NewPassword} :
        IdsServe("login", login(IdsUser, password))

VerifyRecoveryKey ==
    \E recovery_key \in {RecoveryKey, WrongPassword} :
        IdsServe("verify_recovery_key",
                 verify_recovery_key(IdsUser, recovery_key, NewPassword))

\* run_ids_check on the user's behalf
CheckBruteForce == IdsServe("check_brute_force", check_brute_force(IdsUser))

\* the lock duration passes between two requests
IdsPass ==
    /\ now + IdsStep <= MaxClock
    /\ now' = now + IdsStep
    /\ UNCHANGED <<db, req, last, aux>>

IdsNext == IdsLogin \/ VerifyRecoveryKey \/ CheckBruteForce \/ IdsPass

SpecIds == InitLogin /\ [][IdsNext]_vars

(* ------------------------------- claims ------------------------------- *)

\* C1: a RoomKey row exists for a (room, user) pair if and only if a
\* RoomMember row exists for the same pair, in every state any interleaving
\* of create_room, add_member, remove_member and role changes reaches
C1_KeyIffMember ==
    \A r \in RoomIds, u \in Users :
        (RoomKeyRows(r, u) # {}) <=> (MemberRows(r, u) # {})

\* C9: a membership request that commits a change is the request of an actor
\* who holds the role the handler requires in the state it commits in
C9_RoleAtCommit ==
    [][(/\ req.pc = "loaded"
        /\ req'.pc = "idle"
        /\ <<roomMembers, roomKeys>>' # <<roomMembers, roomKeys>>)
           => check_permission(req.room_id, req.actor, RequiredRole(req.op))]_vars

Roles == {"owner", "admin", "member", "viewer"}

OwnerRows(room_id) ==
    {m \in roomMembers : m.room_id = room_id /\ m.role = "owner"}

\* C2: every room has exactly one membership with role owner, and it is the
\* membership of the user who created the room (the room's owner_id), in
\* every state any sequence of add, remove and role-change requests reaches
C2_OneOwner ==
    \A room \in rooms :
        /\ Cardinality(OwnerRows(room.id)) = 1
        /\ \A m \in OwnerRows(room.id) : m.user_id = room.owner_id

\* a room whose owner has an admin beside them, who passes the check of
\* remove_member and of add_member
C2_Witness ==
    \E room \in rooms : \E m \in roomMembers :
        /\ m.room_id = room.id
        /\ m.role = "admin"
        /\ m.user_id # room.owner_id

\* C3: get_room_key of every current member of a room returns, without an
\* exception, the value drawn when the room was created
C3_KeyAgreement ==
    \A m \in roomMembers :
        get_room_key(m.room_id, m.user_id) =
            [exc |-> NoExc, value |-> generate_room_key(m.room_id)]

\* a room with three holders of the key: at the least one of them was added
\* by add_member from another member's copy
C3_Witness ==
    \E room \in rooms :
        Cardinality({k \in roomKeys : k.room_id = room.id}) >= 3

\* the ranks as the claim gives them
ClaimRank(role) ==
    CASE role = "owner" -> 4
      [] role = "admin" -> 3
      [] role = "member" -> 2
      [] role = "viewer" -> 1

\* C5: check_permission(room, user, required) is true exactly when the user
\* has a membership row in the room whose role ranks at least as high as the
\* required role, under owner 4 > admin 3 > member 2 > viewer 1
C5_Permission ==
    \A room_id \in RoomIds, user_id \in Users, required \in Roles :
        check_permission(room_id, user_id, required) <=>
            \E m \in roomMembers :
                /\ m.room_id = room_id
                /\ m.user_id = user_id
                /\ ClaimRank(m.role) >= ClaimRank(required)

\* a room with a viewer and a member in it, beside its owner
C5_Witness ==
    \E v, m \in roomMembers :
        v.room_id = m.room_id /\ v.role = "viewer" /\ m.role = "member"

NonMemberDenied(room_id, user_id) ==
    /\ get_room_key(room_id, user_id).exc.kind = "PermissionError"
    /\ \A role \in Roles : ~check_permission(room_id, user_id, role)

\* C4: a remove_member request answered 200 leaves no RoomMember and no
\* RoomKey row of (room, user), and whenever a user has no membership row in
\* a room get_room_key raises PermissionError for them and check_permission
\* is false for every role
C4_Removed ==
    /\ [](\A r \in RoomIds, u \in Users :
              MemberRows(r, u) = {} => NonMemberDenied(r, u))
    /\ [][last'.op = "remove_member" /\ last'.status = 200 =>
              \A a \in users, r \in RoomIds, u \in Users :
                  Serve("remove_member", remove_member_endpoint(a, r, u)) =>
                      /\ MemberRows(r, u)' = {}
                      /\ RoomKeyRows(r, u)' = {}
                      /\ NonMemberDenied(r, u)']_vars

\* a member has been removed
C4_Witness == last.op = "remove_member" /\ last.status = 200

Refused == last'.status = 403 /\ UNCHANGED db

\* C6: upload to a room needs member, deleting a room file admin, a role
\* change owner, and room details, file list and decrypt viewer; the request
\* of a caller below that is answered 403 and changes no table and no stored
\* file (a step that is not such a refusal is the step of no such caller)
C6_RoleGate ==
    [][Refused \/ \A u \in users, r \in RoomIds :
          /\ (last'.op = "upload_room_file"
                  /\ ~check_permission(r, u, "member")) =>
                 \A has_file \in BOOLEAN, algorithm \in {"AES-GCM", "ROT13"},
                    file_data \in FileData :
                     ~Serve("upload_room_file",
                            upload_room_file(u, r, has_file, algorithm, EmptyStr,
                                             file_data))
          /\ (last'.op = "delete_room_file"
                  /\ ~check_permission(r, u, "admin")) =>
                 \A f \in FileIds :
                     ~Serve("delete_room_file", delete_room_file(u, r, f))
          /\ (last'.op = "change_role"
                  /\ ~check_permission(r, u, "owner")) =>
                 \A m \in Users, role \in RequestRoles :
                     ~Serve("change_role", change_role_endpoint(u, r, m, role))
          /\ (last'.op = "get_room"
                  /\ ~check_permission(r, u, "viewer")) =>
                 ~Serve("get_room", get_room(u, r))
          /\ (last'.op = "list_room_files"
                  /\ ~check_permission(r, u, "viewer")) =>
                 ~Serve("list_room_files", list_room_files(u, r))
          /\ (last'.op = "decrypt_room_file"
                  /\ ~check_permission(r, u, "viewer")) =>
                 \A f \in FileIds :
                     ~Serve("decrypt_room_file",
                            decrypt_room_file(u, r, f, EmptyStr))]_vars

\* a viewer of a room was refused an upload
C6_Witness ==
    /\ last.op = "upload_room_file"
    /\ last.status = 403
    /\ \E m \in roomMembers : m.role = "viewer"

\* C7: a file of a room leaves the files table only by a request of a user
\* who holds admin or above in that room, by the room route and by the
\* personal route alike
C7_AdminDeletes ==
    [][\A u \in users : \A f \in files :
          (/\ f.room_id # NoRoom
           /\ f \notin files'
           /\ \/ Serve("delete_file", delete_file(u, f.id))
              \/ Serve("delete_room_file", delete_room_file(u, f.room_id, f.id)))
              => check_permission(f.room_id, u, "admin")]_vars

\* C8: a create_room, add_member or remove_member request that is not
\* answered with success leaves the rooms, room_members and room_keys tables
\* as they were
C8_AllOrNothing ==
    [][(\/ last'.op = "create_room" /\ last'.status # 201
        \/ last'.op = "add_member" /\ last'.status # 200
        \/ last'.op = "remove_member" /\ last'.status # 200)
           => UNCHANGED <<rooms, roomMembers, roomKeys>>]_vars

\* an add_member that passed every check but the last was refused
C8_Witness ==
    last.op = "add_member" /\ last.msg = "Target user has no master key"

\* the lock's expiry timestamp has not passed
Unexpired(lock) == now <= lock.expires_at.t

\* the user reaches the lock test of acquire_lock: the file exists, and it is
\* theirs or a room's
MayLock(user_id, file_id) ==
    \E f \in FileRows(file_id) : f.owner_id = user_id \/ f.room_id # NoRoom

\* C10: while user A holds an unexpired lock on a file, the acquire of any
\* other user is answered 409 and their release 403, both leaving the lock
\* row as it is, and a step that changes or removes the row is a step of A's
\* own acquire or release
C10_MutualExclusion ==
    [][\A l \in locks : Unexpired(l) =>
          /\ \A u \in users \ {l.locked_by} :
                 /\ (MayLock(u, l.file_id)
                         /\ Serve("acquire_lock", acquire_lock(u, l.file_id)))
                        => (last'.status = 409 /\ l \in locks')
                 /\ Serve("release_lock", release_lock(u, l.file_id))
                        => (last'.status = 403 /\ l \in locks')
          /\ l \notin locks' =>
                 \/ Serve("acquire_lock", acquire_lock(l.locked_by, l.file_id))
                 \/ Serve("release_lock", release_lock(l.locked_by, l.file_id))]_vars

\* C11: no file has more than one FileLock row, and an acquire that ran its
\* queries while the file had no lock and commits after another acquire did
\* is answered with an error and leaves the other's lock row as it is
C11_OneLockPerFile ==
    /\ [](\A f \in FileIds : Cardinality(LockRows(f)) <= 1)
    /\ [][(/\ req.pc = "checked"
           /\ req.op = "acquire_lock"
           /\ req'.pc = "idle"
           /\ LockRows(req.file_id) # {})
              => (locks' = locks /\ last'.status # 200)]_vars

\* two acquires of one file raced: the second to commit hit the constraint
C11_Witness == last.op = "acquire_lock" /\ last.msg = "IntegrityError"

\* C12: an acquire that creates a lock sets its expiry 15 minutes after the
\* time of the request, and once the expiry of a lock has passed the acquire
\* of any user with access to the file is answered 200 and leaves the file
\* with one lock, theirs, expiring 15 minutes later
C12_Lease ==
    [][\A u \in users, f \in FileIds :
          (/\ MayLock(u, f)
           /\ Serve("acquire_lock", acquire_lock(u, f))
           /\ \E l \in LockRows(f) : now > l.expires_at.t)
              => /\ last'.status = 200
                 /\ \E l \in locks' :
                        /\ LockRows(f)' = {l}
                        /\ l.locked_by = u
                        /\ l.expires_at.t = now + 15]_vars

\* C13: in the personal decrypt, the room decrypt and the share-link access,
\* a response carries plaintext only when the SHA-256 of that plaintext is
\* the hash recorded in the File row, whatever the algorithm of the file
C13_ReleaseAfterHash ==
    [][~last'.sent.is_none => \A f \in files :
          /\ last'.op = "decrypt_file_route" =>
                \A u \in users, k \in VaultPassphrases :
                    Serve("decrypt_file_route", decrypt_file_route(u, f.id, k))
                        => sha256_hash(last'.sent.data) = f.hash_value
          /\ last'.op = "decrypt_room_file" =>
                \A u \in users, k \in {EmptyStr, Str("pw1")} :
                    Serve("decrypt_room_file", decrypt_room_file(u, f.room_id, f.id, k))
                        => sha256_hash(last'.sent.data) = f.hash_value
          /\ last'.op = "access_shared_file" =>
                \A l \in ShareRows(f.id), k \in VaultPassphrases, sp \in SharePassphrases :
                    Serve("access_shared_file", access_shared_file(l.token, k, sp))
                        => sha256_hash(last'.sent.data) = f.hash_value]_vars

\* an AES-CBC file went out through a share link
C13_Witness ==
    /\ last.op = "access_shared_file"
    /\ last.status = 200
    /\ last.sent.data \in FileData
    /\ \E f \in files : f.algorithm = "AES-CBC" /\ ShareRows(f.id) # {}

\* the decryption of a File row under a passphrase gives a plaintext whose
\* SHA-256 is not the recorded one
Mismatch(f, passphrase) ==
    /\ read_and_decrypt(f, passphrase).exc = NoExc
    /\ sha256_hash(read_and_decrypt(f, passphrase).value) # f.hash_value

\* C14: a request that gets as far as a decryption whose plaintext does not
\* have the recorded hash is answered 403 TAMPERING DETECTED and gets no
\* file, in each of the three decrypt paths; a decryption that raises is
\* answered otherwise
C14_TamperReported ==
    [][\A f \in files :
          /\ last'.op = "decrypt_file_route" =>
                \A u \in {f.owner_id} \cap users, k \in VaultPassphrases \ {EmptyStr} :
                    Serve("decrypt_file_route", decrypt_file_route(u, f.id, k))
                        => /\ Mismatch(f, k) =>
                                  /\ last'.status = 403
                                  /\ last'.msg = "TAMPERING DETECTED"
                                  /\ last'.sent.is_none
                           /\ read_and_decrypt(f, k).exc # NoExc =>
                                  last'.msg # "TAMPERING DETECTED"
          /\ last'.op = "decrypt_room_file" =>
                \A u \in users, k \in {EmptyStr, Str("pw1")} :
                    (/\ check_permission(f.room_id, u, "viewer")
                     /\ get_room_key(f.room_id, u).exc = NoExc
                     /\ Serve("decrypt_room_file",
                              decrypt_room_file(u, f.room_id, f.id, k)))
                        => /\ Mismatch(f, hex(get_room_key(f.room_id, u).value) \o k) =>
                                  /\ last'.status = 403
                                  /\ last'.msg = "TAMPERING DETECTED"
                                  /\ last'.sent.is_none
                           /\ read_and_decrypt(
                                  f, hex(get_room_key(f.room_id, u).value) \o k).exc # NoExc =>
                                  last'.msg # "TAMPERING DETECTED"
          /\ last'.op = "access_shared_file" =>
                \A l \in ShareRows(f.id), k \in VaultPassphrases \ {EmptyStr},
                   sp \in SharePassphrases :
                    (/\ now <= l.expiry.t
                     /\ l.passphrase_hash # NoHash => checkpw(sp, l.passphrase_hash)
                     /\ Serve("access_shared_file", access_shared_file(l.token, k, sp)))
                        => /\ Mismatch(f, k) =>
                                  /\ last'.status = 403
                                  /\ last'.msg = "TAMPERING DETECTED"
                                  /\ last'.sent.is_none
                           /\ read_and_decrypt(f, k).exc # NoExc =>
                                  last'.msg # "TAMPERING DETECTED"]_vars

\* a room file that was altered on disk was asked for and refused as
\* tampered with
C14_Witness ==
    /\ last.op = "decrypt_room_file"
    /\ last.status = 403
    /\ last.msg = "TAMPERING DETECTED"
    /\ \E f \in files : f.room_id # NoRoom /\ Mismatch(f, hex(generate_room_key(f.room_id)))

\* C15: decrypt_file, given what encrypt_file returned for a plaintext, a
\* passphrase and one of the three algorithms, and the same passphrase and
\* algorithm, returns exactly that plaintext
C15_RoundTrip ==
    (cx.pc = "decrypted" /\ cx.key = cx.passphrase)
        => (cx.out.exc = NoExc /\ cx.out.value = cx.data)

\* a plaintext of one whole block went through AES-CBC and back
C15_Witness ==
    /\ cx.pc = "decrypted" /\ cx.key = cx.passphrase
    /\ cx.algorithm = "AES-CBC" /\ Len(cx.data) = 16
    /\ Len(cx.enc.ciphertext) = 32 /\ cx.out.value = cx.data

\* C16: a File row with algorithm AES-CBC has no tag, and a File row with
\* AES-GCM or ChaCha20 has a tag (of 16 bytes)
C16_EnvelopeShape ==
    \A f \in files :
        /\ f.algorithm = "AES-CBC" => f.tag.is_none
        /\ f.algorithm \in {"AES-GCM", "ChaCha20"} =>
               (~f.tag.is_none /\ Len(f.tag.data) = 16)

\* C17: a delete request of someone allowed to delete the file removes the
\* ciphertext and the File row, by the personal route and by the room route,
\* and no step removes a File row and leaves its ciphertext
C17_CiphertextThenRecord ==
    [][\A f \in files :
          /\ f \notin files' => ~exists(f.encrypted_path)'
          /\ \A u \in users :
                (/\ f.owner_id = u
                 /\ Serve("delete_file", delete_file(u, f.id)))
                    => (f \notin files' /\ ~exists(f.encrypted_path)')
          /\ \A u \in users :
                (/\ f.room_id # NoRoom
                 /\ check_permission(f.room_id, u, "admin")
                 /\ Serve("delete_room_file", delete_room_file(u, f.room_id, f.id)))
                    => (f \notin files' /\ ~exists(f.encrypted_path)')]_vars

\* C18: secure_delete_file returns False at once, and changes nothing, for
\* a path that does not exist and only for such a path; for a path that
\* exists it ends with the path removed and returns True; a second call
\* for a path a first call removed returns False
C18_DeleteOnce ==
    /\ [](\A i \in 1..Len(sd.returned) : \A j \in 1..Len(sd.returned) :
             (i < j /\ sd.returned[i].value /\ sd.returned[j].filepath = sd.returned[i].filepath)
                 => ~sd.returned[j].value)
    /\ [][/\ (sd.pc = "idle" /\ sd'.returned # sd.returned) =>
                 /\ ~exists(sd'.filepath)
                 /\ ~sd'.returned[Len(sd'.returned)].value
                 /\ UNCHANGED <<disk, content>>
          /\ (sd.pc = "idle" /\ sd'.pc # "idle") => exists(sd'.filepath)
          /\ (sd.pc # "idle" /\ sd'.pc = "idle") =>
                 /\ sd'.returned[Len(sd'.returned)] = [filepath |-> sd.filepath, value |-> TRUE]
                 /\ ~exists(sd.filepath)']_vars

\* a file of two bytes was deleted, and the call after it returned False
C18_Witness ==
    /\ Len(sd.returned) = 2
    /\ sd.returned[1] = [filepath |-> 1, value |-> TRUE]
    /\ sd.returned[2] = [filepath |-> 1, value |-> FALSE]
    /\ sd.file_size = 2
    /\ disk = {}

\* C19: whatever passes a caller gives, the file is removed only after at
\* least three passes of the file's length, every pass is written only
\* after the pass before it reached the disk, and the removal comes after
\* the last pass reached the disk
C19_ThreePasses ==
    /\ [](\A k \in 1..Len(sd.written) : Len(sd.written[k]) = sd.file_size)
    /\ [][/\ Len(sd'.written) > Len(sd.written) => sd.synced = Len(sd.written)
          /\ (sd.pc # "idle" /\ sd'.pc = "idle") =>
                 (sd.synced = Len(sd.written) /\ Len(sd.written) >= 3)]_vars

\* bit k of a byte
Bit(b, k) == (b \div (2 ^ k)) % 2

\* C20: the bytes pass 2 writes differ from the bytes pass 1 wrote in each
\* of the eight bits of every byte
C20_EveryBitDiffers ==
    Len(sd.written) >= 2 =>
        \A i \in 1..sd.file_size : \A k \in 0..7 :
            Bit(sd.written[2][i], k) # Bit(sd.written[1][i], k)

\* C21: in every state each user that exists has exactly one master-key
\* row, from the moment the User row exists, and no step replaces the key of
\* a user that has one
C21_OneMasterKey ==
    /\ [](\A u \in users : Cardinality(KeyRows(u)) = 1)
    /\ [][\A u \in users : KeyRows(u) # {} => KeyRows(u)' = KeyRows(u)]_vars

\* C22: after any calls of store_encrypted_key for a user there is exactly
\* one key row of that user, and retrieve_master_key returns the key the
\* last of those calls was given
C22_LastStoreWins ==
    /\ \A u \in Users :
           ks.stored[u] # <<>> =>
               /\ Cardinality(KeyRows(u)) = 1
               /\ retrieve_master_key(u) =
                      [found |-> TRUE, key |-> ks.stored[u][Len(ks.stored[u])]]
    /\ ks.got.user_id # 0 /\ ks.got.value.found =>
           ks.got.value.key \in {ks.stored[ks.got.user_id][k] :
                                     k \in 1..Len(ks.stored[ks.got.user_id])}

\* two different keys were stored for user 1, and retrieve_master_key
\* returned the second
C22_Witness ==
    /\ ks.stored[1] = <<generate_master_key(1), generate_master_key(2)>>
    /\ ks.got = [user_id |-> 1,
                 value |-> [found |-> TRUE, key |-> generate_master_key(2)]]
    /\ Cardinality(KeyRows(1)) = 1

\* C23: for a user with no master-key row, retrieve_master_key returns None
\* and no key, create_room raises 'Owner has no master key', add_member of
\* that user raises 'Target user has no master key' once its other tests
\* pass, get_room_key raises 'User has no master key' when a room-key row
\* exists, none of them changes a table, and each is a ValueError where the
\* failure of a non-member is a PermissionError
C23_MissingKeyIsAnError ==
    \A u \in Users :
        KeyRows(u) = {} =>
            /\ retrieve_master_key(u) = [found |-> FALSE, key |-> [mk |-> 0]]
            /\ create_room(u) =
                   Unchanged(Raise("ValueError", "Owner has no master key"))
            /\ \A r \in RoomIds :
                   /\ \A a \in Users, role \in DOMAIN ROLE_HIERARCHY \ {"owner"} :
                          ( /\ check_permission(r, a, "admin")
                            /\ MemberRows(r, u) = {}
                            /\ get_room_key(r, a).exc = NoExc )
                          => add_member(r, u, role, a) =
                                 Unchanged(Raise("ValueError",
                                                 "Target user has no master key"))
                   /\ RoomKeyRows(r, u) # {} =>
                          get_room_key(r, u) =
                              [exc |-> Raise("ValueError", "User has no master key"),
                               value |-> [rk |-> 0]]
                   /\ RoomKeyRows(r, u) = {} =>
                          get_room_key(r, u).exc.kind = "PermissionError"
                   /\ ~check_permission(r, u, "admin") =>
                          \A t \in Users :
                              add_member(r, t, "member", u).exc.kind = "PermissionError"

\* a user whose signup stopped before the key was stored was named in an
\* add-member request of a room's owner, and the answer was the 400 of
\* 'Target user has no master key'
C23_Witness ==
    /\ last = [op |-> "add_member", status |-> 400,
               msg |-> "Target user has no master key", sent |-> None]
    /\ \E u \in users : KeyRows(u) = {}
    /\ rooms # {}

\* C24: the room key is stored in no readable form. Every room-key row
\* holds the key of its room sealed under the master key of the row's user,
\* who is a member; every byte of a stored room file is a ciphertext byte
\* under a key PBKDF2 derived from the hex of the room key, so the file
\* holds the key only as the input of the derivation; and a room decrypt
\* writes to no table and no file
C24_RoomKeyOnlySealed ==
    /\ [](/\ \A k \in roomKeys :
                /\ MemberRows(k.room_id, k.user_id) # {}
                /\ retrieve_master_key(k.user_id).found
                /\ k.encrypted_room_key.sealed = generate_room_key(k.room_id)
                /\ k.encrypted_room_key.under = retrieve_master_key(k.user_id).key
          /\ \A f \in files :
                (f.room_id # NoRoom /\ f.encrypted_path \in disk) =>
                    \A i \in DOMAIN content[f.encrypted_path] :
                        /\ content[f.encrypted_path][i].box[2] =
                               derive_key(hex(generate_room_key(f.room_id)), f.salt)
                        /\ content[f.encrypted_path][i].of \in 0..255)
    /\ [][last'.op = "decrypt_room_file" => db' = db]_vars

\* a room with two members' key rows and a file in it, just decrypted
C24_Witness ==
    /\ Cardinality(roomKeys) >= 2
    /\ \E f \in files : f.room_id # NoRoom /\ f.encrypted_path \in disk
    /\ last.op = "decrypt_room_file"
    /\ last.status = 200
    /\ ~last.sent.is_none

\* C25: an upload refused for its input (no file, no passphrase, an unknown
\* algorithm, expiry hours not above zero) adds no File row and writes no
\* ciphertext, by the personal route and by the room route
C25_RejectedUploadWritesNothing ==
    [][( \/ last'.op = "upload_file" /\ last'.status = 400
         \/ last'.op = "upload_room_file" /\ last'.status \in {400, 500} )
       => (files' = files /\ disk' = disk /\ content' = content)]_vars

\* the action name the handler of an operation gives log_action
ActionName ==
    [signup |-> "signup", create_room |-> "room_create",
     add_member |-> "room_add_member", remove_member |-> "room_remove_member",
     change_role |-> "room_role_change", upload_room_file |-> "room_upload",
     delete_room_file |-> "room_delete", upload_file |-> "upload",
     delete_file |-> "delete", acquire_lock |-> "file_lock",
     release_lock |-> "file_unlock", create_version |-> "version_create",
     restore_version |-> "version_restore"]

\* C26: a request that is answered with success and changed a table or a
\* stored file added exactly one row to the audit table, the row's user is
\* the caller, its action is the operation's, and its status is 'success'
\* or 'failure'
C26_OneAuditEvent ==
    [][(db' # db /\ last'.status \in {200, 201}) =>
           /\ Len(audit') = Len(audit) + 1
           /\ audit'[Len(audit')].user_id = req'.actor
           /\ audit'[Len(audit')].action = ActionName[last'.op]
           /\ audit'[Len(audit')].status \in {"success", "failure"}]_vars

\* C28: every FileVersion row is numbered at most its file's
\* current_version; no step lowers a file's current_version; a snapshot
\* request leaves every File row as it was; a restore answered 200 (it
\* always adds the snapshot's row) raises the file's current_version by
\* exactly one; and a FileVersion row that
\* exists stays in the table as it is
C28_VersionsMonotone ==
    /\ [](\A v \in versions : \A f \in FileRows(v.file_id) :
              v.version_number <= f.current_version)
    /\ [][/\ \A f \in files : \A g \in files' :
                 g.id = f.id => g.current_version >= f.current_version
          /\ versions \subseteq versions'
          /\ last'.op = "create_version" => files' = files
          /\ (last'.op = "restore_version" /\ last'.status = 200
                  /\ versions' # versions) =>
                 \E f \in files : \E g \in files' :
                     /\ g.id = f.id
                     /\ g.current_version = f.current_version + 1
                     /\ files' \ {g} = files \ {f}]_vars

\* a file restored twice: its current_version is 3, over version rows
\* numbered 1 and 2
C28_Witness ==
    /\ last.op = "restore_version"
    /\ last.status = 200
    /\ \E f \in files :
           /\ f.current_version = 3
           /\ {v.version_number : v \in VersionRows(f.id)} = {1, 2}

C29_LockNeedsAccess ==
    [][/\ \A l \in locks' \ locks : \E f \in FileRows(l.file_id) :
              \/ f.owner_id = l.locked_by
              \/ f.room_id # NoRoom /\ MemberRows(f.room_id, l.locked_by) # {}
       /\ last'.op = "acquire_lock" =>
              \A u \in users, f \in files :
                  ( /\ f.owner_id # u
                    /\ (f.room_id = NoRoom \/ MemberRows(f.room_id, u) = {})
                    /\ Serve("acquire_lock", acquire_lock(u, f.id)) )
                  => (last'.status = 403 /\ locks' = locks)]_vars

\* C30: while a lock on a file is not expired and its holder owns the file
\* or belongs to the file's room, a delete by the personal or
\* the room route, a snapshot and a restore of that file by any user other
\* than the holder is answered with an error and leaves the File rows, the
\* version rows and the stored files as they were
C30_LockProtects ==
    [][last'.op \in {"delete_file", "delete_room_file", "create_version",
                     "restore_version"} =>
           \A l \in locks : \A f \in FileRows(l.file_id) :
               \A u \in users \ {l.locked_by} :
                   ( /\ now <= l.expires_at.t
                     /\ \/ f.owner_id = l.locked_by
                        \/ MemberRows(f.room_id, l.locked_by) # {}
                     /\ \/ Serve("delete_file", delete_file(u, f.id))
                        \/ Serve("delete_room_file", delete_room_file(u, f.room_id, f.id))
                        \/ Serve("create_version", create_version(u, f.id))
                        \/ \E n \in VersionNumbers :
                               Serve("restore_version", restore_file_version(u, f.id, n)) )
                   => /\ last'.status >= 400
                      /\ files' = files /\ versions' = versions
                      /\ disk' = disk /\ content' = content]_vars

\* C31: a run of cleanup_expired_files removes the File row and the
\* ciphertext of exactly the files whose expiry_time is set and not later
\* than the clock, and leaves every other file and its ciphertext as it was
C31_SweepDeletesExpired ==
    [][\A order \in Orders(ExpiredFiles) :
           SweepServe("cleanup_expired_files", cleanup_expired_files(order)) =>
               /\ files' = files \ ExpiredFiles
               /\ disk' = disk \ {f.encrypted_path : f \in ExpiredFiles}
               /\ \A p \in disk' : content'[p] = content[p]]_vars

\* the lock key of a user is held and its time has not passed
LockLive(u) ==
    /\ Key("lock", u) \in DOMAIN cache.c.store
    /\ Key("lock", u) \in DOMAIN cache.c.expiry => now <= cache.c.expiry[Key("lock", u)]

\* what redis_client holds under a key: the value and the expiry, as stored
Held(key) ==
    <<IF key \in DOMAIN cache.c.store THEN {cache.c.store[key]} ELSE {},
      IF key \in DOMAIN cache.c.expiry THEN {cache.c.expiry[key]} ELSE {}>>

\* the failed-login counter of a user as stored (0 with no key)
FailedCount(u) ==
    IF Key("failed", u) \in DOMAIN cache.c.store
        THEN cache.c.store[Key("failed", u)].digits ELSE 0

\* C32: a login of a user whose lock key is live is answered 423 whatever
\* the password and changes neither the counter, the lock nor the lockout
\* columns; with no live lock the right password is answered 200 and leaves
\* the failed count at zero, and a wrong password raises the count by at
\* most one and locks the account, for 900 seconds from now, exactly when
\* the count it reaches is 5 or more
C32_Lockout ==
    [][\A u \in users, password \in {Password, WrongPassword} :
           LoginServe("login", login(u, password)) =>
               /\ LockLive(u) =>
                      /\ last'.status = 423
                      /\ accounts' = accounts
                      /\ Held(Key("lock", u))' = Held(Key("lock", u))
                      /\ Held(Key("failed", u))' = Held(Key("failed", u))
               /\ (~LockLive(u) /\ password = Password) =>
                      /\ last'.status = 200
                      /\ FailedCount(u)' = 0
                      /\ accounts'[u].failed_attempts = 0
               /\ (~LockLive(u) /\ password = WrongPassword) =>
                      /\ FailedCount(u)' <= FailedCount(u) + 1
                      /\ accounts'[u].failed_attempts = FailedCount(u)'
                      /\ IF FailedCount(u)' >= 5
                             THEN /\ last'.status = 423
                                  /\ LockLive(u)'
                                  /\ Held(Key("lock", u))' =
                                         <<{Text("locked")}, {now + 15}>>
                             ELSE /\ last'.status = 401
                                  /\ ~LockLive(u)']_vars

\* a login refused while the lock of a user who failed five times is live,
\* some time after the lock was set
C32_Witness ==
    \E u \in users :
        /\ LockLive(u)
        /\ accounts[u].failed_attempts = 5
        /\ now > 0
        /\ now < cache.c.expiry[Key("lock", u)]
        /\ last.op = "login"
        /\ last.msg = "Account is locked due to too many failed attempts"

\* C33: an incr made of the InMemoryRedis after any calls and any time
\* returns what the same incr made of a Redis server with the same history
\* returns
C33_IncrAgrees == twin.op = "incr" => twin.mem = twin.red

\* C34: of the verify_otp calls made for a user since the user's last
\* generate_otp, at most one has returned True
C34_SingleUse == \A u \in Users : otp.trues[u] <= 1

\* what a snapshot records of a file, and a file row holds of itself
Recorded(r) == <<r.salt, r.nonce_or_iv, r.tag, r.hash_value, r.file_size>>

C36_OneRowPerNumber ==
    \A v, w \in versions :
        (v.file_id = w.file_id /\ v.version_number = w.version_number) => v = w

\* C37: after a delete request of a file's owner has removed the file's
\* ciphertext, nothing of the file is left: no File, FileVersion, FileLock
\* or ShareLink row of its id, and no snapshot copy of its ciphertext in the
\* content store
C37_NothingRemains ==
    [][last'.op = "delete_file" =>
           \A f \in files :
               ( /\ Serve("delete_file", delete_file(f.owner_id, f.id))
                 /\ f.encrypted_path \in disk
                 /\ f.encrypted_path \notin disk' )
               => /\ FileRows(f.id)' = {}
                  /\ VersionRows(f.id)' = {}
                  /\ LockRows(f.id)' = {}
                  /\ ShareRows(f.id)' = {}
                  /\ \A v \in VersionRows(f.id) : v.encrypted_path \notin disk']_vars

\* C38: while the owner of a room makes no request, every member holds the
\* role they first held as a member
C38_RolesKept ==
    \A r \in RoomIds, u \in Users :
        RoleOf(r, u) # "none" => RoleOf(r, u) = firstRole[r][u]

\* C39: a user whose is_locked flag is set is refused login whatever the
\* password, and a user whose login is refused as locked has the flag set
C39_FlagAgrees ==
    \A u \in users :
        /\ accounts[u].is_locked =>
               \A password \in {Password, NewPassword} :
                   login(u, password).status # 200
        /\ login(u, Password).msg = "Account is locked due to too many failed attempts"
               => accounts[u].is_locked

\* C40: release_lock removes no lock but the one of the file, and that only
\* for its holder or once it has expired, and answers 200 with nothing
\* changed when the file has no lock; check_lock removes no lock but an
\* expired one of the file; neither changes anything else
C40_ReleaseFrame ==
    [][last'.op \in {"release_lock", "check_lock"} =>
           \A u \in users, f \in FileIds :
               /\ Serve("release_lock", release_lock(u, f)) =>
                      /\ LockRows(f) = {} => (locks' = locks /\ last'.status = 200)
                      /\ \A l \in locks \ locks' :
                             /\ l.file_id = f
                             /\ l.locked_by = u \/ now > l.expires_at.t
               /\ Serve("check_lock", check_lock(u, f)) =>
                      \A l \in locks \ locks' : l.file_id = f /\ now > l.expires_at.t
               /\ locks' \subseteq locks
               /\ UNCHANGED <<users, keys, rooms, roomMembers, roomKeys, files, disk,
                              content, shares, versions>>]_vars

\* a release_lock of a user who does not hold the file's unexpired lock has
\* been answered, and the lock is in place
C40_Witness ==
    /\ last.op = "release_lock"
    /\ last.status # 200
    /\ \E l \in locks : now <= l.expires_at.t

====
